---- MODULE Spec2Model ----
(***************************************************************************)
(* Verification model of the journal automation pipeline:                  *)
(*   - Orchestrator._get_opencode_decision   (src/orchestrator.py)         *)
(*   - FactCheckingAgent._compile_results    (src/agents/fact_checking.py) *)
(*   - fibonacci_retry                       (src/utils/retry.py)          *)
(*   - Orchestrator.run_day and its stages   (src/orchestrator.py)         *)
(*   - OrchestratorAgent.run_day             (src/agents/orchestrator.py)  *)
(* Each component has its own specification; the variables of the other    *)
(* components stay at their idle values.                                   *)
(***************************************************************************)
EXTENDS Integers, Sequences, FiniteSets, TLC

VARIABLES
    \* _get_opencode_decision as a pure function
    d_pc, d_options, d_llm, d_result,
    \* FactCheckingAgent._compile_results: the checks given and the result
    c_pc, c_checks, c_result,
    \* fibonacci_retry under a fake clock: the locals of the function, the
    \* clock, the arguments, and a record of what it did
    r_pc, r_now, r_start_time, r_attempt_num, r_last_exception, r_delay,
    r_max_total_time, r_callback, r_calls, r_cb_calls, r_sleeps, r_outcome,
    \* Orchestrator.run_day (orchestrator.py): the configuration, the
    \* position in run_day, the locals of the running stage, summary, the
    \* futures of the worker pool, and the effects outside the process
    o_pc, o_config, o_attempt, o_result, o_exc, o_summary, o_stages,
    o_futures, o_disk, o_commits, o_calls, o_decisions, o_raised,
    \* OrchestratorAgent.run_day (agents/orchestrator.py): the position in
    \* run_day, the locals holding each collaborator's result, the steps
    \* invoked so far, the commits made, and the returned dict
    a_pc, a_git_data, a_content_result, a_fact_check_result, a_qa_result,
    a_validation_result, a_commit_result, a_invoked, a_commits, a_return,
    \* the last failed attempt of _run_content_generation: git_data, what the
    \* arbitration call does, the stage result and the number of chat calls
    f_pc, f_git_data, f_llm, f_result, f_chat_calls,
    \* FactCheckingAgent.check_entry called twice on the same git_data and
    \* markdown: what the five checks give, what client.chat does in each call,
    \* and the dict each call returns
    e_pc, e_checks, e_llm, e_result,
    \* FactCheckingAgent._check_accuracy on a text: git_data, the pieces the text
    \* was put together from (none when the text is rendered from git_data),
    \* the text as characters, and the dict returned
    t_pc, t_git_data, t_fragments, t_text, t_result,
    \* two run_day invocations inside _generate_projects_legend: the position of
    \* each, the projects cache file and what it held at the start, and per
    \* invocation the repositories of its date, what client.chat answers, and
    \* the locals cached_projects and updated_projects
    p_pc, p_file, p_initial, p_mentioned, p_reply, p_cached, p_updated,
    \* run_day from fact checking on, once with quality.parallel_agents off
    \* (seq) and once with it on (par): the position of each run, what each
    \* agent answers to its first and to its second call and what the
    \* arbitration LLM does, the calls made and the futures of the parallel
    \* run, and per run the two stage results and final_status
    q_pc, q_answers, q_calls, q_futures, q_stages,
    \* GitAnalysisAgent.analyze_day: the repositories the loop has still to
    \* visit (each with what git reports for the date), and the locals results
    \* and repo_results
    g_pc, g_todo, g_results, g_repo_results,
    \* FactCheckingAgent._check_consistency: its git_data, the fragments the
    \* markdown text is made of, and its check_result
    l_pc, l_git_data, l_fragments, l_result,
    \* ValidationAgent.validate_entry: the path it is given, the file at that
    \* path, and the dict it returns
    v_pc, v_entry_path, v_file, v_result,
    \* QualityAssuranceAgent.validate_and_commit: what the LLM client does on
    \* the review call, what the other collaborators do, the outcome of
    \* _review_quality, and the result dict
    k_pc, k_reply, k_env, k_review, k_result,
    \* utils.cache: the file projects.json, the number of calls made, and the
    \* last two calls with what they returned
    m_file, m_ops, m_prev, m_last

d_vars == <<d_pc, d_options, d_llm, d_result>>
c_vars == <<c_pc, c_checks, c_result>>

r_vars == <<r_pc, r_now, r_start_time, r_attempt_num, r_last_exception, r_delay,
            r_max_total_time, r_callback, r_calls, r_cb_calls, r_sleeps, r_outcome>>

o_vars == <<o_pc, o_config, o_attempt, o_result, o_exc, o_summary, o_stages,
            o_futures, o_disk, o_commits, o_calls, o_decisions, o_raised>>

a_vars == <<a_pc, a_git_data, a_content_result, a_fact_check_result, a_qa_result,
            a_validation_result, a_commit_result, a_invoked, a_commits, a_return>>

f_vars == <<f_pc, f_git_data, f_llm, f_result, f_chat_calls>>

e_vars == <<e_pc, e_checks, e_llm, e_result>>

t_vars == <<t_pc, t_git_data, t_fragments, t_text, t_result>>

p_vars == <<p_pc, p_file, p_initial, p_mentioned, p_reply, p_cached, p_updated>>

q_vars == <<q_pc, q_answers, q_calls, q_futures, q_stages>>

g_vars == <<g_pc, g_todo, g_results, g_repo_results>>

l_vars == <<l_pc, l_git_data, l_fragments, l_result>>

v_vars == <<v_pc, v_entry_path, v_file, v_result>>

k_vars == <<k_pc, k_reply, k_env, k_review, k_result>>

m_vars == <<m_file, m_ops, m_prev, m_last>>

vars == <<d_vars, c_vars, r_vars, o_vars, a_vars, f_vars, e_vars, t_vars, p_vars, q_vars, g_vars, l_vars, v_vars, k_vars, m_vars>>

Range(s) == {s[i] : i \in 1..Len(s)}

(***************************************************************************)
(* Strings are sequences of one-character strings, so that str.strip() and *)
(* str.lower() are computed and not assumed.                               *)
(***************************************************************************)
S_retry == <<"r", "e", "t", "r", "y">>
S_abort == <<"a", "b", "o", "r", "t">>
S_skip_day == <<"s", "k", "i", "p", "_", "d", "a", "y">>
S_use_fallback == <<"u", "s", "e", "_", "f", "a", "l", "l", "b", "a", "c", "k">>
S_accept == <<"a", "c", "c", "e", "p", "t">>
S_reject == <<"r", "e", "j", "e", "c", "t">>
S_maybe == <<"m", "a", "y", "b", "e">>
S_Abort == <<"A", "b", "o", "r", "t">>

Whitespace == {" ", "\n", "\t"}

UpperOf == [c \in {"a", "r", "s", "u", "m"} |->
              CASE c = "a" -> "A" [] c = "r" -> "R" [] c = "s" -> "S"
                [] c = "u" -> "U" [] c = "m" -> "M"]

LowerChar(c) ==
    CASE c = "A" -> "a" [] c = "R" -> "r" [] c = "S" -> "s"
      [] c = "U" -> "u" [] c = "M" -> "m" [] OTHER -> c

\* str.lower()
Lower(s) == [i \in 1..Len(s) |-> LowerChar(s[i])]

\* str.strip(): drop leading and trailing whitespace
Strip(s) ==
    LET keep == {i \in 1..Len(s) : s[i] \notin Whitespace}
    IN  IF keep = {} THEN <<>>
        ELSE LET lo == CHOOSE i \in keep : \A j \in keep : i <= j
                 hi == CHOOSE i \in keep : \A j \in keep : j <= i
             IN  SubSeq(s, lo, hi)

\* the first letter in upper case, as an LLM may answer "Retry"
Capitalize(s) ==
    IF Len(s) > 0 /\ s[1] \in DOMAIN UpperOf
    THEN <<UpperOf[s[1]]>> \o Tail(s) ELSE s

RECURSIVE Pad(_)
Pad(n) == IF n = 0 THEN <<>> ELSE <<" ">> \o Pad(n - 1)

(***************************************************************************)
(* The fixed decision menus of the orchestrator.                           *)
(***************************************************************************)
GitMenu == <<S_retry, S_abort, S_skip_day>>
GenMenu == <<S_retry, S_abort, S_use_fallback>>
QaMenu == <<S_accept, S_reject, S_retry>>

(***************************************************************************)
(* What the LLM chat call does: it raises, or returns a response whose     *)
(* "content" is a string, or a response whose content is not a string      *)
(* (None), on which .strip() raises AttributeError.                        *)
(***************************************************************************)
LlmRaise == [kind |-> "raise", content |-> <<>>]
LlmNone == [kind |-> "none", content |-> <<>>]
LlmSay(s) == [kind |-> "content", content |-> s]

\* Orchestrator._get_opencode_decision: the value returned, or the
\* exception that leaves the function (only options[0] on an empty menu).
DecisionIgnoringMenu(llm, options) ==
    IF llm.kind = "content"
    THEN [raised |-> FALSE, value |-> Lower(Strip(llm.content))]
    ELSE IF options = <<>> THEN [raised |-> TRUE, value |-> <<>>]
         ELSE [raised |-> FALSE, value |-> options[1]]

GetOpencodeDecision(llm, options) ==
    LET decision == Lower(Strip(llm.content))
    IN  IF llm.kind = "content" /\ decision \in Range(options)
        THEN [raised |-> FALSE, value |-> decision]
        ELSE IF options = <<>>
             THEN [raised |-> TRUE, value |-> <<>>]
             ELSE [raised |-> FALSE, value |-> options[1]]

(***************************************************************************)
(* FactCheckingAgent: check verdicts and their compilation.                *)
(* A verdict is the dict a check returns: passed, issues, corrections and  *)
(* an optional "warnings" key (hasWarnings says whether the key exists).   *)
(***************************************************************************)
CheckNames == <<"accuracy", "completeness", "consistency", "duplicates", "anomalies">>

FailEligible == {"accuracy", "completeness", "consistency", "duplicates"}

Verdict(p, i, hw, w, c) ==
    [passed |-> p, issues |-> i, hasWarnings |-> hw, warnings |-> w, corrections |-> c]

\* thresholds of _check_anomalies
LowRatio == 5
ManySections == 20

\* one repository of git_data and the features of the markdown text that
\* _check_anomalies reads: the number of "## " sections, the count of "\n\n"
\* and the number of lines
RepoIssues(commits, loc_added) ==
    (IF commits > 0 /\ loc_added = 0 THEN <<"deletions_only">> ELSE <<>>)
    \o (IF loc_added > 0 /\ loc_added < LowRatio * commits THEN <<"low_ratio">> ELSE <<>>)

TextIssues(text) ==
    (IF text.sections > ManySections THEN <<"many_sections">> ELSE <<>>)
    \o (IF 10 * text.empty > 3 * text.total THEN <<"blank_lines">> ELSE <<>>)

\* FactCheckingAgent._check_anomalies: passed stays True, issues only
CheckAnomalies(commits, loc_added, text) ==
    Verdict(TRUE, RepoIssues(commits, loc_added) \o TextIssues(text), FALSE, <<>>, <<>>)

\* "[check_name] issue"
Tagged(name, items) == [i \in 1..Len(items) |-> <<name, items[i]>>]

RECURSIVE CollectIssues(_, _)
CollectIssues(checks, k) ==
    IF k = 0 THEN <<>>
    ELSE CollectIssues(checks, k - 1)
         \o Tagged(CheckNames[k], checks[CheckNames[k]].issues)

RECURSIVE CollectWarnings(_, _)
CollectWarnings(checks, k) ==
    IF k = 0 THEN <<>>
    ELSE CollectWarnings(checks, k - 1)
         \o (IF checks[CheckNames[k]].hasWarnings
             THEN Tagged(CheckNames[k], checks[CheckNames[k]].warnings)
             ELSE <<>>)

RECURSIVE CollectCorrections(_, _)
CollectCorrections(checks, k) ==
    IF k = 0 THEN <<>>
    ELSE CollectCorrections(checks, k - 1) \o checks[CheckNames[k]].corrections

\* the status decision of _compile_results
CompileStatusWarningsFirst(errors, warnings, checks) ==
    IF warnings # <<>> \/ \E n \in Range(CheckNames) : ~checks[n].passed
    THEN "pass_with_warnings"
    ELSE IF errors # <<>> THEN "fail" ELSE "pass"

CompileStatus(errors, warnings, checks) ==
    IF errors # <<>> THEN "fail"
    ELSE IF warnings # <<>> \/ \E n \in Range(CheckNames) : ~checks[n].passed
         THEN "pass_with_warnings"
         ELSE "pass"

\* FactCheckingAgent._compile_results on a result whose lists are empty
CompileResults(checks) ==
    LET errors == CollectIssues(checks, Len(CheckNames))
        warnings == CollectWarnings(checks, Len(CheckNames))
    IN  [status |-> CompileStatus(errors, warnings, checks),
         errors |-> errors,
         warnings |-> warnings,
         corrections |-> CollectCorrections(checks, Len(CheckNames))]

(***************************************************************************)
(* fibonacci_retry (utils/retry.py).                                       *)
(***************************************************************************)
FIBONACCI_DELAYS ==
    <<1, 1, 2, 3, 5, 8, 13, 21, 34, 55, 89, 144, 233, 377, 610, 987, 1597,
      2584, 4181, 6765>>

MAX_TOTAL_TIME == 72000

Min(a, b) == IF a <= b THEN a ELSE b

RetryDelayLinear(attempt_num) == attempt_num

\* delay = FIBONACCI_DELAYS[min(attempt_num - 1, len(FIBONACCI_DELAYS) - 1)]
\* (0-based in the source, 1-based here)
RetryDelay(attempt_num) ==
    FIBONACCI_DELAYS[Min(attempt_num - 1, Len(FIBONACCI_DELAYS) - 1) + 1]

RaiseFirst(calls, e) == [kind |-> "raised", exception |-> 1]

\* raise last_exception from None: the exception of this attempt
RaiseLast(calls, e) == [kind |-> "raised", exception |-> e]

\* the test that gives up: elapsed_time >= max_total_time
CeilingReached(elapsed_time, max_total_time) == elapsed_time >= max_total_time

(***************************************************************************)
(* Orchestrator (orchestrator.py): data of run_day.                        *)
(***************************************************************************)
\* a stage result dict; the keys a stage does not set keep these values
StageResult(status) ==
    [status |-> status, is_work_day |-> FALSE, data |-> FALSE,
     full_markdown |-> "", error |-> "none", score |-> 0, malformed |-> FALSE]

NoStage == StageResult("absent")

\* summary as run_day creates it
NewSummary ==
    [is_work_day |-> FALSE, final_status |-> "skipped", errors |-> <<>>,
     commit_hash |-> "none"]

\* _evaluate_qa_result: overall_quality >= 7
QaPassScore == 7

\* main(): sys.exit(0 if final_status in [success, no_work, skipped] else 1)
ExitCode(final_status) ==
    IF final_status \in {"success", "no_work", "skipped"} THEN 0 ELSE 1

\* the messages str(e) of the exceptions the collaborators raise
ExcMessages == {"", "Test error"}

\* git_agent.analyze_day(date) followed by the write of <date>_git_data.json:
\* analyze_day raises, or returns git_data and the write succeeds or raises
AnalyzeOutcomes ==
    {[kind |-> "raise", is_work_day |-> FALSE, msg |-> "Test error"]}
    \cup {[kind |-> "ok", is_work_day |-> w, msg |-> ""] : w \in BOOLEAN}
    \cup {[kind |-> "write_raises", is_work_day |-> w, msg |-> "Test error"] :
            w \in BOOLEAN}

\* content_agent.generate_entry(git_data) followed by the write of the
\* entry: generate_entry raises, returns status 'failed' with an error, or
\* returns status 'complete' and the write succeeds or raises
GenerateOutcomes ==
    {[kind |-> k, msg |-> "Test error"] : k \in {"raise", "failed", "write_raises"}}
    \cup {[kind |-> "complete", msg |-> ""]}

\* FactCheckingAgent.verify_facts (orchestrator.py): the chat call raises
\* ('failed'), the content is not JSON ('error'), or the JSON sets status
VerifyFactsResults ==
    {[status |-> "failed", raised |-> TRUE], [status |-> "error", raised |-> FALSE],
     [status |-> "verified", raised |-> FALSE], [status |-> "issues_found", raised |-> FALSE]}

QaScores == {QaPassScore - 1, QaPassScore}

\* QualityAssuranceAgent.check_quality (orchestrator.py): the chat call
\* raises ('failed', score 0), the content is not JSON ('error', score 0),
\* or the JSON sets status and checks; malformed: checks or the score is
\* not of the expected type, so that reading or comparing it raises
CheckQualityResults ==
    {[status |-> "failed", score |-> 0, malformed |-> FALSE, raised |-> TRUE],
     [status |-> "error", score |-> 0, malformed |-> FALSE, raised |-> FALSE],
     [status |-> "failed", score |-> QaPassScore, malformed |-> FALSE, raised |-> FALSE],
     [status |-> "passed", score |-> 0, malformed |-> TRUE, raised |-> FALSE]}
    \cup {[status |-> st, score |-> n, malformed |-> FALSE, raised |-> FALSE] :
            st \in {"passed", "needs_improvement"}, n \in QaScores}

Collaborators ==
    {"analyze_day", "generate_entry", "verify_facts", "check_quality",
     "stage_and_commit", "commit_final_entry", "push_to_remote", "notify"}

Bump(calls, c) == [calls EXCEPT ![c] = @ + 1]

NoFutures == [fact_check |-> NoStage, qa |-> NoStage]

(***************************************************************************)
(* OrchestratorAgent (agents/orchestrator.py): data of run_day.  A Python  *)
(* str is a sequence of non-empty pieces, the empty str is <<>>; a value    *)
(* that may be None is a record that says whether it is.                    *)
(***************************************************************************)
None == [is_none |-> TRUE, text |-> <<>>]

Str(t) == [is_none |-> FALSE, text |-> t]

\* str(e) of an exception with message m
StrOfException(m) == IF m = "" THEN <<>> ELSE <<m>>

RECURSIVE Join(_, _)
\* sep.join(items), each item a str
Join(sep, items) ==
    IF items = <<>> THEN <<>>
    ELSE IF Len(items) = 1 THEN items[1]
    ELSE items[1] \o <<sep>> \o Join(sep, Tail(items))

StepNames == <<"analyze_day", "generate_entry", "check_entry", "validate_and_commit",
               "validate_entry", "commit_entry">>

\* git_agent.analyze_day: raises, or returns git_data
AgentAnalyzeOutcomes ==
    {[kind |-> "raise", msg |-> m, is_work_day |-> FALSE] : m \in ExcMessages}
    \cup {[kind |-> "ok", msg |-> "", is_work_day |-> w] : w \in BOOLEAN}

\* content_agent.generate_entry: raises, or returns status 'complete', or
\* status 'failed' with error = str(e) of the exception it caught
AgentGenerateOutcomes ==
    {[kind |-> "raise", msg |-> m, status |-> "pending", has_error |-> FALSE, error |-> <<>>] :
        m \in ExcMessages}
    \cup {[kind |-> "ok", msg |-> "", status |-> "complete", has_error |-> FALSE, error |-> <<>>]}
    \cup {[kind |-> "ok", msg |-> "", status |-> "failed", has_error |-> TRUE,
           error |-> StrOfException(m)] : m \in ExcMessages}

\* quality_assurance_agent.validate_and_commit: raises, or returns status
\* 'pass' with the file created and committed or not, or status 'fail'
\* with the file created (an exception after _create_journal_file) or not
AgentQaOutcomes ==
    {[kind |-> "raise", msg |-> m, status |-> "fail", issues |-> <<>>, file_path |-> "",
      committed |-> FALSE] : m \in ExcMessages}
    \cup {[kind |-> "ok", msg |-> "", status |-> "pass", issues |-> i,
           file_path |-> "entry.md", committed |-> c] :
            i \in {<<>>, << <<"Syntax: unclosed code block">> >>}, c \in BOOLEAN}
    \cup {[kind |-> "ok", msg |-> "", status |-> "fail", issues |-> i,
           file_path |-> f, committed |-> FALSE] :
            i \in {<<>>, << <<"Syntax: unclosed code block">> >>}, f \in {"", "entry.md"}}

\* validation_agent.validate_entry: raises, or returns valid with no
\* issue, or not valid with issues
AgentValidateOutcomes ==
    {[kind |-> "raise", msg |-> m, valid |-> FALSE, issues |-> <<>>] : m \in ExcMessages}
    \cup {[kind |-> "ok", msg |-> "", valid |-> TRUE, issues |-> <<>>],
          [kind |-> "ok", msg |-> "", valid |-> FALSE, issues |-> << <<"Missing Summary section">> >>]}

\* commit_agent.commit_entry: raises, or returns success with a hash or
\* without one, or no success
AgentCommitOutcomes ==
    {[kind |-> "raise", msg |-> m, success |-> FALSE, commit_hash |-> None] : m \in ExcMessages}
    \cup {[kind |-> "ok", msg |-> "", success |-> TRUE, commit_hash |-> Str(<<"abc123">>)],
          [kind |-> "ok", msg |-> "", success |-> TRUE, commit_hash |-> None],
          [kind |-> "ok", msg |-> "", success |-> FALSE, commit_hash |-> None]}

NotCalled(fields) == [kind |-> "not_called", msg |-> ""] @@ fields

NoReturn == [status |-> "running", entry_path |-> None, commit_hash |-> None, error |-> None]

(***************************************************************************)
(* Orchestrator._generate_fallback_content.  A text is a sequence of       *)
(* lines, a line a sequence of pieces; git_data["repos"] is a sequence in   *)
(* the dict's insertion order.                                              *)
(***************************************************************************)
\* f"{n:,}" for 0 <= n < 1000000
FormatThousands(n) ==
    IF n < 1000 THEN <<ToString(n)>>
    ELSE <<ToString(n \div 1000), ",",
           ToString((n % 1000) \div 100), ToString((n % 100) \div 10), ToString(n % 10)>>

\* f"{h:.1f}" for a number of hours given in tenths
FormatOneDecimal(tenths) == <<ToString(tenths \div 10), ".", ToString(tenths % 10)>>

FallbackLimit == 5

AllMessages(commit_messages) == commit_messages

\* repo_data["commit_messages"][:5]
FirstMessages(commit_messages) ==
    SubSeq(commit_messages, 1, Min(FallbackLimit, Len(commit_messages)))

\* the backquote character, which a string of this language cannot hold
Backquote == "BACKQUOTE"

RepoLine(repo) ==
    <<"- ", Backquote, repo.name, Backquote, " (", ToString(repo.commits), " commits)">>

\* the element "\n### name" gives an empty line and a heading
RepoCommits(repo) ==
    << <<>>, <<"### ", repo.name>> >>
    \o [k \in 1..Len(FirstMessages(repo.commit_messages)) |->
          <<"- ", FirstMessages(repo.commit_messages)[k]>>]

RECURSIVE CommitsSection(_)
CommitsSection(repos) ==
    IF repos = <<>> THEN <<>>
    ELSE RepoCommits(Head(repos)) \o CommitsSection(Tail(repos))

GenerateFallbackContent(git_data) ==
    << <<"# ", git_data.date>>,
       <<>>,
       <<"**Hours:** ~">> \o FormatOneDecimal(git_data.estimated_hours),
       <<"**Lines Changed:** +">> \o FormatThousands(git_data.total_loc_added)
          \o <<"/-">> \o FormatThousands(git_data.total_loc_deleted),
       <<>>,
       <<"## Summary">>,
       <<"Automated generation failed. ", ToString(git_data.total_commits),
         " commits across ", ToString(Len(git_data.repos)), " repos.">>,
       <<>>,
       <<"## Repositories">> >>
    \o [i \in 1..Len(git_data.repos) |-> RepoLine(git_data.repos[i])]
    \o << <<>>, <<"## Commits">> >>
    \o CommitsSection(git_data.repos)

(***************************************************************************)
(* The values the variables of a component hold while another component's  *)
(* specification runs.                                                     *)
(***************************************************************************)
NoResult == [raised |-> FALSE, value |-> <<"?">>]

DecisionIdle ==
    /\ d_pc = "idle"
    /\ d_options = <<>>
    /\ d_llm = LlmRaise
    /\ d_result = NoResult

EmptyResult == [status |-> "pass", errors |-> <<>>, warnings |-> <<>>, corrections |-> <<>>]

NoChecks == <<>>

CompileIdle ==
    /\ c_pc = "idle"
    /\ c_checks = NoChecks
    /\ c_result = EmptyResult

RetryIdle ==
    /\ r_pc = "idle"
    /\ r_now = 0
    /\ r_start_time = 0
    /\ r_attempt_num = 0
    /\ r_last_exception = 0
    /\ r_delay = 0
    /\ r_max_total_time = 0
    /\ r_callback = FALSE
    /\ r_calls = 0
    /\ r_cb_calls = <<>>
    /\ r_sleeps = <<>>
    /\ r_outcome = [kind |-> "none", exception |-> 0]

OrchestratorIdle ==
    /\ o_pc = "idle"
    /\ o_config = <<>>
    /\ o_attempt = 0
    /\ o_result = NoStage
    /\ o_exc = ""
    /\ o_summary = NewSummary
    /\ o_stages = <<>>
    /\ o_futures = NoFutures
    /\ o_disk = <<>>
    /\ o_commits = <<>>
    /\ o_calls = <<>>
    /\ o_decisions = <<>>
    /\ o_raised = {}

AgentStart ==
    /\ a_git_data = NotCalled([is_work_day |-> FALSE])
    /\ a_content_result = NotCalled([status |-> "pending", has_error |-> FALSE, error |-> <<>>])
    /\ a_fact_check_result = NotCalled([status |-> "pass", errors |-> <<>>, warnings |-> <<>>])
    /\ a_qa_result = NotCalled([status |-> "fail", issues |-> <<>>, file_path |-> "",
                                committed |-> FALSE])
    /\ a_validation_result = NotCalled([valid |-> FALSE, issues |-> <<>>])
    /\ a_commit_result = NotCalled([success |-> FALSE, commit_hash |-> None])
    /\ a_invoked = <<>>
    /\ a_commits = <<>>
    /\ a_return = NoReturn

AgentIdle == a_pc = "idle" /\ AgentStart

NoReply == <<>>

CheckEntryIdle ==
    /\ e_pc = <<"idle", "idle">>
    /\ e_checks = [raised |-> FALSE, checks |-> NoChecks]
    /\ e_llm = <<LlmNone, LlmNone>>
    /\ e_result = <<NoReply, NoReply>>

NoVerdict == <<>>

AccuracyIdle ==
    /\ t_pc = "idle"
    /\ t_git_data = <<>>
    /\ t_fragments = <<>>
    /\ t_text = <<>>
    /\ t_result = NoVerdict

NoFile == <<>>

LegendIdle ==
    /\ p_pc = <<"idle", "idle">>
    /\ p_file = NoFile
    /\ p_initial = {}
    /\ p_mentioned = <<{}, {}>>
    /\ p_reply = <<"none", "none">>
    /\ p_cached = <<{}, {}>>
    /\ p_updated = <<{}, {}>>

NoAnswers == <<>>

ModesIdle ==
    /\ q_pc = [seq |-> "idle", par |-> "idle"]
    /\ q_answers = NoAnswers
    /\ q_calls = [fact |-> 0, qa |-> 0]
    /\ q_futures = NoFutures
    /\ q_stages = <<>>

AnalysisIdle ==
    /\ g_pc = "idle"
    /\ g_todo = <<>>
    /\ g_results = <<>>
    /\ g_repo_results = <<>>

ConsistencyIdle ==
    /\ l_pc = "idle"
    /\ l_git_data = <<>>
    /\ l_fragments = <<>>
    /\ l_result = <<>>

ValidatorIdle ==
    /\ v_pc = "idle"
    /\ v_entry_path = <<>>
    /\ v_file = <<>>
    /\ v_result = <<>>

QualityIdle ==
    /\ k_pc = "idle"
    /\ k_reply = <<>>
    /\ k_env = <<>>
    /\ k_review = <<>>
    /\ k_result = <<>>

CacheIdle ==
    /\ m_file = <<>>
    /\ m_ops = 0
    /\ m_prev = <<>>
    /\ m_last = <<>>

FallbackIdle ==
    /\ f_pc = "idle"
    /\ f_git_data = <<>>
    /\ f_llm = LlmNone
    /\ f_result = <<>>
    /\ f_chat_calls = 0

(***************************************************************************)
(* Specification SpecCompile: _compile_results on every combination of     *)
(* check verdicts of the bounded sets.                                     *)
(***************************************************************************)
MaxIssues == 1
MaxCommits == 2

RECURSIVE Repeat(_, _)
Repeat(x, n) == IF n = 0 THEN <<>> ELSE <<x>> \o Repeat(x, n - 1)

\* accuracy, completeness and duplicates suggest one correction per issue,
\* consistency suggests none
CorrectionsFor(name, n) ==
    IF name = "consistency" THEN <<>> ELSE Repeat("fix", n)

VerdictsOf(name) ==
    {Verdict(p, Repeat("issue", n), hw, IF hw THEN <<"warning">> ELSE <<>>,
             CorrectionsFor(name, n)) :
        p \in BOOLEAN, n \in 0..MaxIssues, hw \in BOOLEAN}

LocSamples == {0, 4, 10}

TextSamples ==
    {[sections |-> 1, empty |-> 0, total |-> 3],
     [sections |-> 21, empty |-> 0, total |-> 21],
     [sections |-> 0, empty |-> 1, total |-> 3]}

AnomalyVerdicts ==
    {CheckAnomalies(n, loc, t) : n \in 1..MaxCommits, loc \in LocSamples, t \in TextSamples}

ChecksOf(ac, co, cs, du, an) ==
    [n \in Range(CheckNames) |->
        CASE n = "accuracy" -> ac [] n = "completeness" -> co
          [] n = "consistency" -> cs [] n = "duplicates" -> du
          [] n = "anomalies" -> an]

CompileInit ==
    /\ c_pc = "compile"
    /\ \E ac \in VerdictsOf("accuracy"), co \in VerdictsOf("completeness"),
          cs \in VerdictsOf("consistency"), du \in VerdictsOf("duplicates"),
          an \in AnomalyVerdicts :
            c_checks = ChecksOf(ac, co, cs, du, an)
    /\ c_result = EmptyResult
    /\ DecisionIdle
    /\ RetryIdle
    /\ OrchestratorIdle
    /\ AgentIdle
    /\ FallbackIdle
    /\ CheckEntryIdle
    /\ AccuracyIdle
    /\ LegendIdle
    /\ ModesIdle
    /\ AnalysisIdle
    /\ ConsistencyIdle
    /\ ValidatorIdle
    /\ QualityIdle
    /\ CacheIdle

CompileCall ==
    /\ c_pc = "compile"
    /\ c_result' = CompileResults(c_checks)
    /\ c_pc' = "done"
    /\ UNCHANGED c_checks
    /\ UNCHANGED <<d_vars, r_vars, o_vars, a_vars, f_vars, e_vars, t_vars, p_vars, q_vars, g_vars, l_vars, v_vars, k_vars, m_vars>>

SpecCompile == CompileInit /\ [][CompileCall]_vars

SomeFailEligibleFailed == \E n \in FailEligible : ~c_checks[n].passed

\* C1 (as stated): if any of the accuracy, completeness, consistency or
\* duplicates checks has passed == False, the compiled status is 'fail'.
C1_Original ==
    (c_pc = "done" /\ SomeFailEligibleFailed) => c_result.status = "fail"

\* C1 (amended): if any of the four checks has passed == False the compiled
\* status is never 'pass'; it is 'fail', however many warnings exist, when
\* that check lists at least one issue, and 'pass_with_warnings' when no
\* check at all lists an issue.
C1_FailedCheckNeverPasses ==
    (c_pc = "done" /\ SomeFailEligibleFailed) =>
        /\ c_result.status # "pass"
        /\ (\E n \in FailEligible : ~c_checks[n].passed /\ c_checks[n].issues # <<>>)
              => c_result.status = "fail"
        /\ (\A n \in Range(CheckNames) : c_checks[n].issues = <<>>)
              => c_result.status = "pass_with_warnings"

\* a failed accuracy check with an issue, next to a warning of another check
C1_Witness ==
    /\ c_pc = "done"
    /\ ~c_checks["accuracy"].passed
    /\ c_checks["accuracy"].issues # <<>>
    /\ c_checks["completeness"].hasWarnings
    /\ c_result.warnings # <<>>
    /\ c_result.status = "fail"

\* C2 (as stated): if the anomalies check is the only check with issues and
\* the four other checks pass with no issues, the status is
\* 'pass_with_warnings' and the anomaly issues are in warnings, not errors.
C2_AnomaliesOnlyWarn ==
    (/\ c_pc = "done"
     /\ c_checks["anomalies"].issues # <<>>
     /\ \A n \in FailEligible : c_checks[n].passed /\ c_checks[n].issues = <<>>)
    => /\ c_result.status = "pass_with_warnings"
       /\ \A i \in 1..Len(c_result.errors) : c_result.errors[i][1] # "anomalies"
       /\ \A j \in 1..Len(c_checks["anomalies"].issues) :
             <<"anomalies", c_checks["anomalies"].issues[j]>> \in Range(c_result.warnings)

(***************************************************************************)
(* Specification SpecRetry: fibonacci_retry with a fake clock that the     *)
(* operation and every sleep advance.  The operation of the k-th           *)
(* invocation either returns or raises exception number k; the callback,   *)
(* when given, answers True or False.                                      *)
(***************************************************************************)
MaxOpTime == 1
MaxCeiling == 4

Ceilings == (1..MaxCeiling) \cup {MAX_TOTAL_TIME}

\* start_time = time.time(); attempt_num = 0; last_exception = None
RetryInit ==
    /\ r_pc = "call"
    /\ r_now = 0
    /\ r_start_time = 0
    /\ r_attempt_num = 0
    /\ r_last_exception = 0
    /\ r_delay = 0
    /\ r_max_total_time \in Ceilings
    /\ r_callback \in BOOLEAN
    /\ r_calls = 0
    /\ r_cb_calls = <<>>
    /\ r_sleeps = <<>>
    /\ r_outcome = [kind |-> "none", exception |-> 0]
    /\ DecisionIdle
    /\ CompileIdle
    /\ OrchestratorIdle
    /\ AgentIdle
    /\ FallbackIdle
    /\ CheckEntryIdle
    /\ AccuracyIdle
    /\ LegendIdle
    /\ ModesIdle
    /\ AnalysisIdle
    /\ ConsistencyIdle
    /\ ValidatorIdle
    /\ QualityIdle
    /\ CacheIdle

\* operation() returns: the result is returned to the caller
RetryOperationReturns ==
    /\ r_pc = "call"
    /\ \E took \in 0..MaxOpTime : r_now' = r_now + took
    /\ r_calls' = r_calls + 1
    /\ r_outcome' = [kind |-> "returned", exception |-> 0]
    /\ r_pc' = "returned"
    /\ UNCHANGED <<r_start_time, r_attempt_num, r_last_exception, r_delay,
                   r_max_total_time, r_callback, r_cb_calls, r_sleeps>>
    /\ UNCHANGED <<d_vars, c_vars, o_vars, a_vars, f_vars, e_vars, t_vars, p_vars, q_vars, g_vars, l_vars, v_vars, k_vars, m_vars>>

\* operation() raises: the except block up to the sleep
RetryOperationRaises ==
    /\ r_pc = "call"
    /\ \E took \in 0..MaxOpTime, should_continue \in BOOLEAN :
         LET e == r_calls + 1
             attempt == r_attempt_num + 1
             now == r_now + took
             elapsed_time == now - r_start_time
         IN  /\ r_now' = now
             /\ r_calls' = r_calls + 1
             /\ r_last_exception' = e
             /\ r_attempt_num' = attempt
             /\ IF CeilingReached(elapsed_time, r_max_total_time)
                THEN /\ r_outcome' = RaiseLast(r_calls, e)
                     /\ r_pc' = "raised"
                     /\ UNCHANGED <<r_delay, r_cb_calls>>
                ELSE /\ r_delay' = RetryDelay(attempt)
                     /\ IF r_callback
                        THEN /\ r_cb_calls' = Append(r_cb_calls, <<attempt, e>>)
                             /\ IF should_continue
                                THEN r_pc' = "sleep" /\ UNCHANGED r_outcome
                                ELSE /\ r_outcome' = RaiseLast(r_calls, e)
                                     /\ r_pc' = "raised"
                        ELSE /\ r_pc' = "sleep"
                             /\ UNCHANGED <<r_cb_calls, r_outcome>>
    /\ UNCHANGED <<r_start_time, r_max_total_time, r_callback, r_sleeps>>
    /\ UNCHANGED <<d_vars, c_vars, o_vars, a_vars, f_vars, e_vars, t_vars, p_vars, q_vars, g_vars, l_vars, v_vars, k_vars, m_vars>>

\* time.sleep(delay), then the loop calls operation() again
RetrySleep ==
    /\ r_pc = "sleep"
    /\ r_now' = r_now + r_delay
    /\ r_sleeps' = Append(r_sleeps, r_delay)
    /\ r_pc' = "call"
    /\ UNCHANGED <<r_start_time, r_attempt_num, r_last_exception, r_delay,
                   r_max_total_time, r_callback, r_calls, r_cb_calls, r_outcome>>
    /\ UNCHANGED <<d_vars, c_vars, o_vars, a_vars, f_vars, e_vars, t_vars, p_vars, q_vars, g_vars, l_vars, v_vars, k_vars, m_vars>>

RetryNext == RetryOperationReturns \/ RetryOperationRaises \/ RetrySleep

SpecRetry == RetryInit /\ [][RetryNext]_vars

\* C4 (as stated): once the elapsed time since the start has reached
\* max_total_time, operation is never invoked again and the function does
\* not return a result.
C4_NoCallAfterCeiling ==
    [][(r_pc # "idle" /\ r_now - r_start_time >= r_max_total_time)
          => (r_calls' = r_calls /\ r_pc' # "returned")]_vars

\* the except block has run to its end: the loop sleeps or has given up
AfterFailedAttempt == r_pc \in {"sleep", "raised"}

GaveUp == r_pc = "raised"

\* the elapsed time that the last except block compared with the ceiling
\* (the clock has not moved since)
GaveUpAtCeiling == GaveUp /\ CeilingReached(r_now - r_start_time, r_max_total_time)

\* the k-th call of the callback got (k, the exception of the k-th attempt)
CallbackArguments == \A k \in 1..Len(r_cb_calls) : r_cb_calls[k] = <<k, k>>

\* the exception raised is that of the most recent attempt, and operation
\* was invoked once per attempt
RaisesMostRecent ==
    GaveUp => /\ r_outcome = [kind |-> "raised", exception |-> r_last_exception]
              /\ r_last_exception = r_calls
              /\ r_calls = r_attempt_num

\* a give-up below the ceiling follows a callback call for that attempt and
\* happens before the sleep of that attempt
AbortIsImmediate ==
    (GaveUp /\ ~GaveUpAtCeiling) =>
        /\ r_callback
        /\ Len(r_cb_calls) = r_attempt_num
        /\ Len(r_sleeps) = r_attempt_num - 1

\* C22 as stated: the callback, when given, is called with (attempt number,
\* exception) after each failed attempt; if it returns False the loop raises
\* that attempt's exception at once, with no sleep and no further invocation
\* of operation; whenever the loop gives up the exception raised is the one
\* of the most recent attempt.
C22_Original ==
    /\ (r_callback /\ AfterFailedAttempt) => Len(r_cb_calls) = r_attempt_num
    /\ (r_pc # "idle" /\ ~r_callback) => r_cb_calls = <<>>
    /\ CallbackArguments
    /\ AbortIsImmediate
    /\ RaisesMostRecent

\* C22 amended: the callback, when given, is called with (attempt number,
\* exception) after each failed attempt that has not reached the ceiling
\* (the attempt that reaches the ceiling raises without a callback call); if
\* it returns False the loop raises that attempt's exception at once, with
\* no sleep and no further invocation of operation; whenever the loop gives
\* up the exception raised is the one of the most recent attempt.
C22_CallbackProtocol ==
    /\ (r_callback /\ AfterFailedAttempt) =>
          Len(r_cb_calls) = (IF GaveUpAtCeiling THEN r_attempt_num - 1 ELSE r_attempt_num)
    /\ (r_pc # "idle" /\ ~r_callback) => r_cb_calls = <<>>
    /\ CallbackArguments
    /\ AbortIsImmediate
    /\ RaisesMostRecent

\* the callback stopped the loop at the third attempt, below the ceiling
C22_Witness ==
    /\ GaveUp
    /\ ~GaveUpAtCeiling
    /\ r_attempt_num = 3
    /\ r_cb_calls = << <<1, 1>>, <<2, 2>>, <<3, 3>> >>
    /\ r_outcome.exception = 3

\* the k-th and the (k+1)-th term of the sequence 1, 1, 2, 3, 5, 8, ...
RECURSIVE FibonacciPair(_)
FibonacciPair(k) ==
    IF k = 1 THEN <<1, 1>>
    ELSE LET p == FibonacciPair(k - 1) IN <<p[2], p[1] + p[2]>>

\* C23: fibonacci_retry sleeps, after the k-th consecutive failed attempt,
\* the k-th term of the Fibonacci sequence for k <= 20, and 6765 seconds
\* after every failure beyond the 20th.
C23_FibonacciSleeps ==
    \A k \in 1..Len(r_sleeps) :
        r_sleeps[k] = (IF k <= 20 THEN FibonacciPair(k)[1] ELSE 6765)

\* the loop has slept beyond the 20th failure
C23_Witness ==
    /\ Len(r_sleeps) = 22
    /\ r_sleeps[20] = 6765
    /\ r_sleeps[19] = 4181
    /\ r_sleeps[22] = 6765
(***************************************************************************)
(* Specification SpecDecision: _get_opencode_decision on every menu and    *)
(* every LLM behaviour of the bounded sets.                                *)
(***************************************************************************)
MaxPad == 1

Words == {S_retry, S_abort, S_skip_day, S_use_fallback, S_accept, S_reject,
          S_maybe, <<>>}

Answers ==
    {Pad(l) \o w \o Pad(r) : w \in Words \cup {Capitalize(x) : x \in Words},
                             l \in 0..MaxPad, r \in 0..MaxPad}

LlmBehaviours == {LlmRaise, LlmNone} \cup {LlmSay(a) : a \in Answers}

Menus == {GitMenu, GenMenu, QaMenu, <<S_abort>>, <<S_Abort, S_retry>>, <<>>}

DecisionInit ==
    /\ d_pc = "ask"
    /\ d_options \in Menus
    /\ d_llm \in LlmBehaviours
    /\ d_result = NoResult
    /\ CompileIdle
    /\ RetryIdle
    /\ OrchestratorIdle
    /\ AgentIdle
    /\ FallbackIdle
    /\ CheckEntryIdle
    /\ AccuracyIdle
    /\ LegendIdle
    /\ ModesIdle
    /\ AnalysisIdle
    /\ ConsistencyIdle
    /\ ValidatorIdle
    /\ QualityIdle
    /\ CacheIdle

DecisionCall ==
    /\ d_pc = "ask"
    /\ d_result' = GetOpencodeDecision(d_llm, d_options)
    /\ d_pc' = "done"
    /\ UNCHANGED <<d_options, d_llm>>
    /\ UNCHANGED <<c_vars, r_vars, o_vars, a_vars, f_vars, e_vars, t_vars, p_vars, q_vars, g_vars, l_vars, v_vars, k_vars, m_vars>>

SpecDecision == DecisionInit /\ [][DecisionCall]_vars

\* the answer is, ignoring case, exactly one of the options
CaseInsensitiveExactMatch(llm, options) ==
    /\ llm.kind = "content"
    /\ \E i \in 1..Len(options) : Lower(llm.content) = Lower(options[i])

\* C3 (as stated): on a non-empty menu the result is a member of the menu,
\* no exception leaves the function, and the result is options[0] whenever
\* the answer is not a case-insensitive exact match of an option.
C3_Original ==
    (d_pc = "done" /\ d_options # <<>>) =>
        /\ ~d_result.raised
        /\ d_result.value \in Range(d_options)
        /\ ~CaseInsensitiveExactMatch(d_llm, d_options)
              => d_result.value = d_options[1]

\* C3 (amended): on a non-empty menu the result is a member of the menu and
\* no exception leaves the function; the result is options[0] whenever the
\* call raises or the answer, stripped of surrounding whitespace and
\* lower-cased, is not one of the options, and is that option otherwise.
C3_DecisionInMenu ==
    (d_pc = "done" /\ d_options # <<>>) =>
        /\ ~d_result.raised
        /\ d_result.value \in Range(d_options)
        /\ IF d_llm.kind = "content"
              /\ Lower(Strip(d_llm.content)) \in Range(d_options)
           THEN d_result.value = Lower(Strip(d_llm.content))
           ELSE d_result.value = d_options[1]

\* the LLM answered "maybe" to the git menu and the default was taken
C3_Witness ==
    /\ d_pc = "done"
    /\ d_options = GitMenu
    /\ d_llm = LlmSay(S_maybe)
    /\ d_result.value = S_retry

(***************************************************************************)
(* Specification Spec: Orchestrator.run_day for one date, under every      *)
(* configuration and every behaviour of the collaborators.                 *)
(***************************************************************************)
MaxRetries == 2

\* config["opencode"]["max_retries"] is no key of DEFAULT_CONFIG: it exists
\* only when the user's ~/.journalrc defines it
\* what the arbitration call of a run can do: raise, answer without
\* content, or answer one of the words
ArbitrationBehaviours == {LlmRaise, LlmNone} \cup {LlmSay(w) : w \in Words}

Configs ==
    {[has_max_retries |-> FALSE, max_retries |-> 0,
      commit_as_they_go |-> c, parallel_agents |-> p] : c, p \in BOOLEAN}
    \cup {[has_max_retries |-> TRUE, max_retries |-> n,
           commit_as_they_go |-> c, parallel_agents |-> p] :
            n \in 1..MaxRetries, c, p \in BOOLEAN}

Init ==
    /\ o_pc = "start"
    /\ o_config \in Configs
    /\ o_attempt = 0
    /\ o_result = NoStage
    /\ o_exc = ""
    /\ o_summary = NewSummary
    /\ o_stages = [git_analysis |-> NoStage, content_generation |-> NoStage,
                   fact_checking |-> NoStage, quality_assurance |-> NoStage]
    /\ o_futures = NoFutures
    /\ o_disk = [git_data |-> FALSE, entry |-> "none"]
    /\ o_commits = <<>>
    /\ o_calls = [c \in Collaborators |-> 0]
    /\ o_decisions = <<>>
    /\ o_raised = {}
    /\ DecisionIdle
    /\ CompileIdle
    /\ RetryIdle
    /\ AgentIdle
    /\ FallbackIdle
    /\ CheckEntryIdle
    /\ AccuracyIdle
    /\ LegendIdle
    /\ ModesIdle
    /\ AnalysisIdle
    /\ ConsistencyIdle
    /\ ValidatorIdle
    /\ QualityIdle
    /\ CacheIdle

LastAttemptOneLater == o_attempt = o_config.max_retries

\* attempt == self.config["opencode"]["max_retries"] - 1
LastAttempt == o_attempt = o_config.max_retries - 1

\* the except block of run_day: final_status 'error', the message appended
\* to errors, _send_notification
HandleException(summary) ==
    [summary EXCEPT !.final_status = "error",
                    !.errors = Append(@, "Orchestrator failed")]

\* run_day up to the first stage; range(config["opencode"]["max_retries"])
\* raises KeyError when the key is missing
RunDayStart ==
    /\ o_pc = "start"
    /\ IF o_config.has_max_retries
       THEN /\ o_pc' = "git_analysis"
            /\ o_result' = StageResult("pending")
            /\ UNCHANGED <<o_summary, o_calls, o_raised>>
       ELSE /\ o_pc' = "done"
            /\ o_summary' = HandleException(o_summary)
            /\ o_calls' = Bump(o_calls, "notify")
            /\ o_raised' = o_raised \cup {"config"}
            /\ UNCHANGED o_result
    /\ UNCHANGED <<o_config, o_attempt, o_exc, o_stages, o_futures, o_disk,
                   o_commits, o_decisions>>
    /\ UNCHANGED <<d_vars, c_vars, r_vars, a_vars, f_vars, e_vars, t_vars, p_vars, q_vars, g_vars, l_vars, v_vars, k_vars, m_vars>>

\* one iteration of the loop of _run_git_analysis
GitAnalysisAttempt ==
    /\ o_pc = "git_analysis"
    /\ \E out \in AnalyzeOutcomes, committed \in BOOLEAN :
         LET analysed == [o_result EXCEPT !.data = TRUE,
                                          !.is_work_day = out.is_work_day,
                                          !.status = "complete"]
         IN  IF out.kind = "ok"
             THEN /\ o_result' = analysed
                  /\ o_stages' = [o_stages EXCEPT !.git_analysis = analysed]
                  /\ o_disk' = [o_disk EXCEPT !.git_data = TRUE]
                  /\ IF o_config.commit_as_they_go
                     THEN /\ o_calls' = Bump(Bump(o_calls, "analyze_day"), "stage_and_commit")
                          /\ o_commits' = IF committed THEN Append(o_commits, "git-analysis")
                                          ELSE o_commits
                     ELSE /\ o_calls' = Bump(o_calls, "analyze_day")
                          /\ UNCHANGED o_commits
                  /\ o_pc' = "after_git_analysis"
                  /\ UNCHANGED <<o_attempt, o_exc, o_raised>>
             ELSE /\ o_result' = IF out.kind = "raise" THEN o_result ELSE analysed
                  /\ o_exc' = out.msg
                  /\ o_raised' = o_raised \cup
                        {IF out.kind = "raise" THEN "analyze_day" ELSE "write"}
                  /\ o_calls' = Bump(o_calls, "analyze_day")
                  /\ IF LastAttempt
                     THEN o_pc' = "git_analysis_decision" /\ UNCHANGED o_attempt
                     ELSE o_attempt' = o_attempt + 1 /\ UNCHANGED o_pc
                  /\ UNCHANGED <<o_stages, o_disk, o_commits>>
    /\ UNCHANGED <<o_config, o_summary, o_futures, o_decisions>>
    /\ UNCHANGED <<d_vars, c_vars, r_vars, a_vars, f_vars, e_vars, t_vars, p_vars, q_vars, g_vars, l_vars, v_vars, k_vars, m_vars>>

\* the arbitration of _run_git_analysis after the last failed attempt;
\* 'retry' continues the loop, which has no iteration left
GitAnalysisDecision ==
    /\ o_pc = "git_analysis_decision"
    /\ \E llm \in ArbitrationBehaviours :
         LET decision == GetOpencodeDecision(llm, GitMenu).value
             final == IF decision = S_retry
                      THEN [o_result EXCEPT !.status = "failed",
                                            !.error = "Max retries exceeded"]
                      ELSE IF decision = S_skip_day
                           THEN [o_result EXCEPT !.status = "skipped"]
                           ELSE [o_result EXCEPT !.status = "failed", !.error = o_exc]
         IN  /\ o_decisions' = Append(o_decisions, <<"git_analysis", decision>>)
             /\ o_result' = final
             /\ o_stages' = [o_stages EXCEPT !.git_analysis = final]
             /\ o_summary' = IF decision = S_skip_day THEN o_summary
                             ELSE [o_summary EXCEPT !.errors = Append(@, final.error)]
             /\ o_raised' = IF llm.kind = "raise" THEN o_raised \cup {"llm"} ELSE o_raised
    /\ o_pc' = "after_git_analysis"
    /\ UNCHANGED <<o_config, o_attempt, o_exc, o_futures, o_disk, o_commits, o_calls>>
    /\ UNCHANGED <<d_vars, c_vars, r_vars, a_vars, f_vars, e_vars, t_vars, p_vars, q_vars, g_vars, l_vars, v_vars, k_vars, m_vars>>

\* run_day between _run_git_analysis and _run_content_generation
RunDayAfterGitAnalysis ==
    /\ o_pc = "after_git_analysis"
    /\ IF ~o_stages.git_analysis.is_work_day
       THEN /\ o_summary' = [o_summary EXCEPT !.final_status = "no_work"]
            /\ o_pc' = "done"
            /\ UNCHANGED <<o_attempt, o_result>>
       ELSE /\ o_summary' = [o_summary EXCEPT !.is_work_day = TRUE]
            /\ o_pc' = "content_generation"
            /\ o_attempt' = 0
            /\ o_result' = StageResult("pending")
    /\ UNCHANGED <<o_config, o_exc, o_stages, o_futures, o_disk, o_commits,
                   o_calls, o_decisions, o_raised>>
    /\ UNCHANGED <<d_vars, c_vars, r_vars, a_vars, f_vars, e_vars, t_vars, p_vars, q_vars, g_vars, l_vars, v_vars, k_vars, m_vars>>

\* one iteration of the loop of _run_content_generation
ContentGenerationAttempt ==
    /\ o_pc = "content_generation"
    /\ \E out \in GenerateOutcomes, committed \in BOOLEAN :
         LET generated == [o_result EXCEPT !.status = "complete",
                                           !.full_markdown = "generated"]
             failed == [o_result EXCEPT !.status = "failed", !.error = out.msg]
         IN  CASE out.kind = "complete" ->
                  /\ o_result' = generated
                  /\ o_stages' = [o_stages EXCEPT !.content_generation = generated]
                  /\ o_disk' = [o_disk EXCEPT !.entry = "generated"]
                  /\ IF o_config.commit_as_they_go
                     THEN /\ o_calls' = Bump(Bump(o_calls, "generate_entry"), "stage_and_commit")
                          /\ o_commits' = IF committed THEN Append(o_commits, "draft")
                                          ELSE o_commits
                     ELSE /\ o_calls' = Bump(o_calls, "generate_entry")
                          /\ UNCHANGED o_commits
                  /\ o_pc' = "after_content_generation"
                  /\ UNCHANGED <<o_attempt, o_exc, o_raised>>
               [] out.kind = "failed" ->
                  /\ o_result' = failed
                  /\ o_stages' = [o_stages EXCEPT !.content_generation = failed]
                  /\ o_calls' = Bump(o_calls, "generate_entry")
                  /\ o_pc' = "after_content_generation"
                  /\ UNCHANGED <<o_attempt, o_exc, o_raised, o_disk, o_commits>>
               [] out.kind \in {"raise", "write_raises"} ->
                  /\ o_result' = IF out.kind = "raise" THEN o_result ELSE generated
                  /\ o_exc' = out.msg
                  /\ o_raised' = o_raised \cup
                        {IF out.kind = "raise" THEN "generate_entry" ELSE "write"}
                  /\ o_calls' = Bump(o_calls, "generate_entry")
                  /\ IF LastAttempt
                     THEN o_pc' = "content_generation_decision" /\ UNCHANGED o_attempt
                     ELSE o_attempt' = o_attempt + 1 /\ UNCHANGED o_pc
                  /\ UNCHANGED <<o_stages, o_disk, o_commits>>
    /\ UNCHANGED <<o_config, o_summary, o_futures, o_decisions>>
    /\ UNCHANGED <<d_vars, c_vars, r_vars, a_vars, f_vars, e_vars, t_vars, p_vars, q_vars, g_vars, l_vars, v_vars, k_vars, m_vars>>

\* the arbitration of _run_content_generation after the last failed attempt
ContentGenerationDecision ==
    /\ o_pc = "content_generation_decision"
    /\ \E llm \in ArbitrationBehaviours :
         LET decision == GetOpencodeDecision(llm, GenMenu).value
             final == IF decision = S_retry
                      THEN [o_result EXCEPT !.status = "failed",
                                            !.error = "Max retries exceeded"]
                      ELSE IF decision = S_use_fallback
                           THEN [o_result EXCEPT !.status = "fallback",
                                                 !.full_markdown = "fallback"]
                           ELSE [o_result EXCEPT !.status = "failed", !.error = o_exc]
         IN  /\ o_decisions' = Append(o_decisions, <<"content_generation", decision>>)
             /\ o_result' = final
             /\ o_stages' = [o_stages EXCEPT !.content_generation = final]
             /\ o_summary' = IF decision = S_use_fallback THEN o_summary
                             ELSE [o_summary EXCEPT !.errors = Append(@, final.error)]
             /\ o_raised' = IF llm.kind = "raise" THEN o_raised \cup {"llm"} ELSE o_raised
    /\ o_pc' = "after_content_generation"
    /\ UNCHANGED <<o_config, o_attempt, o_exc, o_futures, o_disk, o_commits, o_calls>>
    /\ UNCHANGED <<d_vars, c_vars, r_vars, a_vars, f_vars, e_vars, t_vars, p_vars, q_vars, g_vars, l_vars, v_vars, k_vars, m_vars>>

\* run_day after _run_content_generation: _handle_failure unless 'complete'
RunDayAfterContentGeneration ==
    /\ o_pc = "after_content_generation"
    /\ IF o_stages.content_generation.status # "complete"
       THEN /\ o_summary' = [o_summary EXCEPT
                                !.errors = Append(@, "content_generation failed")]
            /\ o_calls' = Bump(o_calls, "notify")
            /\ o_pc' = "done"
       ELSE /\ o_pc' = "fact_checking"
            /\ UNCHANGED <<o_summary, o_calls>>
    /\ UNCHANGED <<o_config, o_attempt, o_result, o_exc, o_stages, o_futures,
                   o_disk, o_commits, o_decisions, o_raised>>
    /\ UNCHANGED <<d_vars, c_vars, r_vars, a_vars, f_vars, e_vars, t_vars, p_vars, q_vars, g_vars, l_vars, v_vars, k_vars, m_vars>>

FactStage(r) == StageResult(r.status)

QaStage(r) == [StageResult(r.status) EXCEPT !.score = r.score, !.malformed = r.malformed]

RaisedBy(r) == IF r.raised THEN {"llm"} ELSE {}

\* _run_fact_checking with parallel_agents off: verify_facts in this thread
RunFactChecking ==
    /\ o_pc = "fact_checking"
    /\ ~o_config.parallel_agents
    /\ \E r \in VerifyFactsResults :
         /\ o_stages' = [o_stages EXCEPT !.fact_checking = FactStage(r)]
         /\ o_raised' = o_raised \cup RaisedBy(r)
    /\ o_calls' = Bump(o_calls, "verify_facts")
    /\ o_pc' = "quality_assurance"
    /\ UNCHANGED <<o_config, o_attempt, o_result, o_exc, o_summary, o_futures,
                   o_disk, o_commits, o_decisions>>
    /\ UNCHANGED <<d_vars, c_vars, r_vars, a_vars, f_vars, e_vars, t_vars, p_vars, q_vars, g_vars, l_vars, v_vars, k_vars, m_vars>>

\* _run_quality_assurance with parallel_agents off: check_quality in this thread
RunQualityAssurance ==
    /\ o_pc = "quality_assurance"
    /\ ~o_config.parallel_agents
    /\ \E r \in CheckQualityResults :
         /\ o_stages' = [o_stages EXCEPT !.quality_assurance = QaStage(r)]
         /\ o_raised' = o_raised \cup RaisedBy(r)
    /\ o_calls' = Bump(o_calls, "check_quality")
    /\ o_pc' = "evaluate_qa_result"
    /\ UNCHANGED <<o_config, o_attempt, o_result, o_exc, o_summary, o_futures,
                   o_disk, o_commits, o_decisions>>
    /\ UNCHANGED <<d_vars, c_vars, r_vars, a_vars, f_vars, e_vars, t_vars, p_vars, q_vars, g_vars, l_vars, v_vars, k_vars, m_vars>>

\* _run_parallel_checks: the worker thread that runs verify_facts
WorkerVerifyFacts ==
    /\ o_pc \in {"fact_checking", "quality_assurance"}
    /\ o_config.parallel_agents
    /\ o_futures.fact_check = NoStage
    /\ \E r \in VerifyFactsResults :
         /\ o_futures' = [o_futures EXCEPT !.fact_check = FactStage(r)]
         /\ o_raised' = o_raised \cup RaisedBy(r)
    /\ o_calls' = Bump(o_calls, "verify_facts")
    /\ UNCHANGED <<o_pc, o_config, o_attempt, o_result, o_exc, o_summary, o_stages,
                   o_disk, o_commits, o_decisions>>
    /\ UNCHANGED <<d_vars, c_vars, r_vars, a_vars, f_vars, e_vars, t_vars, p_vars, q_vars, g_vars, l_vars, v_vars, k_vars, m_vars>>

\* _run_parallel_checks: the worker thread that runs check_quality
WorkerCheckQuality ==
    /\ o_pc \in {"fact_checking", "quality_assurance"}
    /\ o_config.parallel_agents
    /\ o_futures.qa = NoStage
    /\ \E r \in CheckQualityResults :
         /\ o_futures' = [o_futures EXCEPT !.qa = QaStage(r)]
         /\ o_raised' = o_raised \cup RaisedBy(r)
    /\ o_calls' = Bump(o_calls, "check_quality")
    /\ UNCHANGED <<o_pc, o_config, o_attempt, o_result, o_exc, o_summary, o_stages,
                   o_disk, o_commits, o_decisions>>
    /\ UNCHANGED <<d_vars, c_vars, r_vars, a_vars, f_vars, e_vars, t_vars, p_vars, q_vars, g_vars, l_vars, v_vars, k_vars, m_vars>>

\* _run_fact_checking with parallel_agents on: both futures are done, the
\* fact check result is kept and the QA result of this pair is dropped
JoinFactChecking ==
    /\ o_pc = "fact_checking"
    /\ o_config.parallel_agents
    /\ o_futures.fact_check # NoStage /\ o_futures.qa # NoStage
    /\ o_stages' = [o_stages EXCEPT !.fact_checking = o_futures.fact_check]
    /\ o_futures' = NoFutures
    /\ o_pc' = "quality_assurance"
    /\ UNCHANGED <<o_config, o_attempt, o_result, o_exc, o_summary, o_disk,
                   o_commits, o_calls, o_decisions, o_raised>>
    /\ UNCHANGED <<d_vars, c_vars, r_vars, a_vars, f_vars, e_vars, t_vars, p_vars, q_vars, g_vars, l_vars, v_vars, k_vars, m_vars>>

\* _run_quality_assurance with parallel_agents on: a second pair of
\* futures, of which the QA result is kept
JoinQualityAssurance ==
    /\ o_pc = "quality_assurance"
    /\ o_config.parallel_agents
    /\ o_futures.fact_check # NoStage /\ o_futures.qa # NoStage
    /\ o_stages' = [o_stages EXCEPT !.quality_assurance = o_futures.qa]
    /\ o_futures' = NoFutures
    /\ o_pc' = "evaluate_qa_result"
    /\ UNCHANGED <<o_config, o_attempt, o_result, o_exc, o_summary, o_disk,
                   o_commits, o_calls, o_decisions, o_raised>>
    /\ UNCHANGED <<d_vars, c_vars, r_vars, a_vars, f_vars, e_vars, t_vars, p_vars, q_vars, g_vars, l_vars, v_vars, k_vars, m_vars>>

RejectedSilently(summary) == [summary EXCEPT !.final_status = "quality_check_failed"]

\* the else branch of run_day: qa_passed is False
Rejected(summary) ==
    [summary EXCEPT !.final_status = "quality_check_failed",
                    !.errors = Append(@, "Quality check failed - needs improvement")]

\* the score gate of _evaluate_qa_result
ScoreAcceptsAlways(qa) == TRUE

ScoreAccepts(qa) == qa.score >= QaPassScore

\* _evaluate_qa_result up to the arbitration, and run_day's branch on it
EvaluateQaResult ==
    /\ o_pc = "evaluate_qa_result"
    /\ LET qa == o_stages.quality_assurance
       IN  CASE qa.status = "failed" ->
                /\ o_summary' = Rejected(o_summary)
                /\ o_calls' = Bump(o_calls, "notify")
                /\ o_pc' = "done"
                /\ UNCHANGED o_raised
             [] qa.status # "failed" /\ qa.malformed ->
                /\ o_summary' = HandleException(o_summary)
                /\ o_calls' = Bump(o_calls, "notify")
                /\ o_pc' = "done"
                /\ o_raised' = o_raised \cup {"evaluate"}
             [] qa.status # "failed" /\ ~qa.malformed /\ ScoreAccepts(qa) ->
                /\ o_pc' = "commit_final_entry"
                /\ UNCHANGED <<o_summary, o_calls, o_raised>>
             [] OTHER ->
                /\ o_pc' = "qa_decision"
                /\ UNCHANGED <<o_summary, o_calls, o_raised>>
    /\ UNCHANGED <<o_config, o_attempt, o_result, o_exc, o_stages, o_futures,
                   o_disk, o_commits, o_decisions>>
    /\ UNCHANGED <<d_vars, c_vars, r_vars, a_vars, f_vars, e_vars, t_vars, p_vars, q_vars, g_vars, l_vars, v_vars, k_vars, m_vars>>

\* the arbitration of _evaluate_qa_result: only 'accept' accepts
QaDecision ==
    /\ o_pc = "qa_decision"
    /\ \E llm \in ArbitrationBehaviours :
         LET decision == GetOpencodeDecision(llm, QaMenu).value
         IN  /\ o_decisions' = Append(o_decisions, <<"quality_assurance", decision>>)
             /\ o_raised' = IF llm.kind = "raise" THEN o_raised \cup {"llm"} ELSE o_raised
             /\ IF decision = S_accept
                THEN /\ o_pc' = "commit_final_entry"
                     /\ UNCHANGED <<o_summary, o_calls>>
                ELSE /\ o_summary' = Rejected(o_summary)
                     /\ o_calls' = Bump(o_calls, "notify")
                     /\ o_pc' = "done"
    /\ UNCHANGED <<o_config, o_attempt, o_result, o_exc, o_stages, o_futures,
                   o_disk, o_commits>>
    /\ UNCHANGED <<d_vars, c_vars, r_vars, a_vars, f_vars, e_vars, t_vars, p_vars, q_vars, g_vars, l_vars, v_vars, k_vars, m_vars>>

\* the outcomes of _commit_final_entry: stage_and_commit returns False
\* or True or raises; after True, with scheduling.auto_push set,
\* push_to_remote returns (its value is only printed) or raises
CommitOutcomes ==
    {"not_committed", "committed", "committed_pushed", "committed_push_raises", "raise"}

Committed(out) == out \in {"committed", "committed_pushed", "committed_push_raises"}

CommitRaised(out) == out \in {"committed_push_raises", "raise"}

\* _commit_final_entry, then final_status = 'success'
CommitFinalEntry ==
    /\ o_pc = "commit_final_entry"
    /\ \E out \in CommitOutcomes :
         /\ o_commits' = IF Committed(out) THEN Append(o_commits, "journal") ELSE o_commits
         /\ o_summary' =
              [o_summary EXCEPT
                 !.final_status = "success",
                 !.commit_hash = IF Committed(out) THEN "committed" ELSE @,
                 !.errors = IF CommitRaised(out) THEN Append(@, "Commit error") ELSE @]
         /\ o_raised' = o_raised \cup
              (IF out = "raise" THEN {"stage_and_commit"}
               ELSE IF out = "committed_push_raises" THEN {"push_to_remote"} ELSE {})
         /\ o_calls' =
              LET called == Bump(Bump(o_calls, "commit_final_entry"), "stage_and_commit")
              IN  IF out \in {"committed_pushed", "committed_push_raises"}
                  THEN Bump(called, "push_to_remote") ELSE called
    /\ o_pc' = "done"
    /\ UNCHANGED <<o_config, o_attempt, o_result, o_exc, o_stages, o_futures,
                   o_disk, o_decisions>>
    /\ UNCHANGED <<d_vars, c_vars, r_vars, a_vars, f_vars, e_vars, t_vars, p_vars, q_vars, g_vars, l_vars, v_vars, k_vars, m_vars>>

Next ==
    \/ RunDayStart
    \/ GitAnalysisAttempt
    \/ GitAnalysisDecision
    \/ RunDayAfterGitAnalysis
    \/ ContentGenerationAttempt
    \/ ContentGenerationDecision
    \/ RunDayAfterContentGeneration
    \/ RunFactChecking
    \/ RunQualityAssurance
    \/ WorkerVerifyFacts
    \/ WorkerCheckQuality
    \/ JoinFactChecking
    \/ JoinQualityAssurance
    \/ EvaluateQaResult
    \/ QaDecision
    \/ CommitFinalEntry

Spec == Init /\ [][Next]_vars

Done == o_pc = "done"

EntryWritten == o_disk.entry # "none"

DraftCommitted == "draft" \in Range(o_commits)

FinalCommitMade == "journal" \in Range(o_commits)

VerificationCompleted ==
    /\ o_stages.fact_checking # NoStage
    /\ o_stages.quality_assurance # NoStage

\* the decision step has accepted: the QA result did not fail and either
\* the score reaches the pass score or the last arbitration said 'accept'
Accepted ==
    /\ o_stages.quality_assurance.status # "failed"
    /\ ~o_stages.quality_assurance.malformed
    /\ \/ o_stages.quality_assurance.score >= QaPassScore
       \/ /\ o_decisions # <<>>
          /\ o_decisions[Len(o_decisions)] = <<"quality_assurance", S_accept>>

C6_FactCheckGatesSuccess ==
    (o_pc = "commit_final_entry" \/ (Done /\ o_summary.final_status = "success"))
       => o_stages.fact_checking.status \notin {"issues_found", "error", "failed"}

\* the run ended because a stage failed or rejected
EndedByFailure ==
    \/ o_stages.git_analysis.status = "failed" /\ o_stages.content_generation = NoStage
    \/ o_stages.content_generation \notin {NoStage}
          /\ o_stages.content_generation.status # "complete"
    \/ o_summary.final_status \in {"quality_check_failed", "error"}

\* C8: every run_day that ends because a stage failed or rejected returns
\* with a non-empty errors list and has called _send_notification.
C8_FailureNotifies ==
    (Done /\ EndedByFailure)
       => (o_summary.errors # <<>> /\ o_calls["notify"] >= 1)

\* C9: final_status is 'no_work' or 'skipped' (exit code 0) only when git
\* analysis succeeded and found no commits; when git analysis fails or is
\* aborted, or content generation ends without 'complete', final_status is a
\* failure value and the exit code is 1.
C9_StatusMapping ==
    Done =>
       /\ o_summary.final_status \in {"no_work", "skipped"}
             => /\ o_stages.git_analysis.status = "complete"
                /\ ~o_stages.git_analysis.is_work_day
       /\ ( \/ o_stages.git_analysis.status = "failed"
            \/ /\ o_stages.content_generation # NoStage
               /\ o_stages.content_generation.status # "complete" )
             => ExitCode(o_summary.final_status) = 1

\* an exception of a collaborator ended a stage, or reached run_day
UnrecoveredException ==
    \/ o_stages.git_analysis.status = "failed"
    \/ o_stages.content_generation.status = "failed"
    \/ o_stages.fact_checking.status = "failed"
    \/ o_raised \cap {"config", "evaluate", "stage_and_commit", "push_to_remote"} # {}

\* C10: whatever exception a collaborator raises, run_day returns a result
\* with a failure status and the message in errors.
C10_ExceptionGivesFailure ==
    (Done /\ UnrecoveredException)
       => (ExitCode(o_summary.final_status) = 1 /\ o_summary.errors # <<>>)

(***************************************************************************)
(* Specification SpecAgent: OrchestratorAgent.run_day for one date, under  *)
(* every behaviour of its six collaborators.                               *)
(***************************************************************************)
\* f"[{check_name}] {issue}" of _compile_results
FormatIssue(e) == <<"[", e[1], "] ", e[2]>>

FormatIssues(items) == [k \in 1..Len(items) |-> FormatIssue(items[k])]

PassedVerdict == Verdict(TRUE, <<>>, FALSE, <<>>, <<>>)

\* check_entry when no check raises: the compiled verdict of the checks,
\* here with every accuracy and anomalies verdict and the other checks passed
CheckEntryResult(checks) ==
    LET r == CompileResults(checks)
    IN  [kind |-> "ok", msg |-> "", status |-> r.status,
         errors |-> FormatIssues(r.errors), warnings |-> FormatIssues(r.warnings)]

\* check_entry when a check raises: its except block
CheckEntryError(m) ==
    [kind |-> "ok", msg |-> "", status |-> "fail",
     errors |-> << <<"Fact-checking failed: ">> \o StrOfException(m) >>,
     warnings |-> <<>>]

\* fact_checking_agent.check_entry: raises, or returns one of the above
AgentCheckOutcomes ==
    {[kind |-> "raise", msg |-> m, status |-> "pass", errors |-> <<>>, warnings |-> <<>>] :
        m \in ExcMessages}
    \cup {CheckEntryError(m) : m \in ExcMessages}
    \cup {CheckEntryResult(ChecksOf(ac, PassedVerdict, PassedVerdict, PassedVerdict, an)) :
            ac \in VerdictsOf("accuracy"), an \in AnomalyVerdicts}

AgentInit ==
    /\ a_pc = "analyze_day"
    /\ AgentStart
    /\ DecisionIdle
    /\ CompileIdle
    /\ RetryIdle
    /\ OrchestratorIdle
    /\ FallbackIdle
    /\ CheckEntryIdle
    /\ AccuracyIdle
    /\ LegendIdle
    /\ ModesIdle
    /\ AnalysisIdle
    /\ ConsistencyIdle
    /\ ValidatorIdle
    /\ QualityIdle
    /\ CacheIdle

\* the except block of run_day
AgentFailure(m) ==
    [status |-> "failed", entry_path |-> None, commit_hash |-> None,
     error |-> Str(StrOfException(m))]

\* the dict returned when a step fails
Failed(entry_path, error) ==
    [status |-> "failed", entry_path |-> entry_path, commit_hash |-> None,
     error |-> Str(error)]

SkippedWithError ==
    [status |-> "skipped", entry_path |-> None, commit_hash |-> None,
     error |-> Str(<<"No commits on this date">>)]

Skipped == [status |-> "skipped", entry_path |-> None, commit_hash |-> None, error |-> None]

SuccessNeedsHash(entry_path, commit_hash) ==
    IF commit_hash = None
    THEN [status |-> "failed", entry_path |-> entry_path, commit_hash |-> None,
          error |-> Str(<<"Commit failed">>)]
    ELSE [status |-> "success", entry_path |-> entry_path, commit_hash |-> commit_hash,
          error |-> None]

Success(entry_path, commit_hash) ==
    [status |-> "success", entry_path |-> entry_path, commit_hash |-> commit_hash,
     error |-> None]

\* content_result.get("error", "Content generation failed")
ContentError(r) == IF r.has_error THEN r.error ELSE <<"Content generation failed">>

ContentFailed(r) == r.status # "complete"

FactCheckNeverFails(r) == FALSE

FactCheckFailed(r) == r.status = "fail"

QaFailed(r) == r.status # "pass"

\* self.journal_dir / qa_result["file_path"]
EntryPath(r) == Str(<<"journal_dir/", r.file_path>>)

\* step 1: analyze_day, and the skip of a day without work
AgentAnalyzeDay ==
    /\ a_pc = "analyze_day"
    /\ \E out \in AgentAnalyzeOutcomes :
         /\ a_git_data' = out
         /\ IF out.kind = "raise"
            THEN a_return' = AgentFailure(out.msg) /\ a_pc' = "done"
            ELSE IF ~out.is_work_day
                 THEN a_return' = Skipped /\ a_pc' = "done"
                 ELSE a_pc' = "generate_entry" /\ UNCHANGED a_return
    /\ a_invoked' = Append(a_invoked, "analyze_day")
    /\ UNCHANGED <<a_content_result, a_fact_check_result, a_qa_result,
                   a_validation_result, a_commit_result, a_commits>>
    /\ UNCHANGED <<d_vars, c_vars, r_vars, o_vars, f_vars, e_vars, t_vars, p_vars, q_vars, g_vars, l_vars, v_vars, k_vars, m_vars>>

\* step 2: generate_entry
AgentGenerateEntry ==
    /\ a_pc = "generate_entry"
    /\ \E out \in AgentGenerateOutcomes :
         /\ a_content_result' = out
         /\ IF out.kind = "raise"
            THEN a_return' = AgentFailure(out.msg) /\ a_pc' = "done"
            ELSE IF ContentFailed(out)
                 THEN a_return' = Failed(None, ContentError(out)) /\ a_pc' = "done"
                 ELSE a_pc' = "check_entry" /\ UNCHANGED a_return
    /\ a_invoked' = Append(a_invoked, "generate_entry")
    /\ UNCHANGED <<a_git_data, a_fact_check_result, a_qa_result,
                   a_validation_result, a_commit_result, a_commits>>
    /\ UNCHANGED <<d_vars, c_vars, r_vars, o_vars, f_vars, e_vars, t_vars, p_vars, q_vars, g_vars, l_vars, v_vars, k_vars, m_vars>>

\* step 3: check_entry
AgentCheckEntry ==
    /\ a_pc = "check_entry"
    /\ \E out \in AgentCheckOutcomes :
         /\ a_fact_check_result' = out
         /\ IF out.kind = "raise"
            THEN a_return' = AgentFailure(out.msg) /\ a_pc' = "done"
            ELSE IF FactCheckFailed(out)
                 THEN /\ a_return' = Failed(None, <<"Fact-checking failed: ">>
                                                    \o Join("; ", out.errors))
                      /\ a_pc' = "done"
                 ELSE a_pc' = "validate_and_commit" /\ UNCHANGED a_return
    /\ a_invoked' = Append(a_invoked, "check_entry")
    /\ UNCHANGED <<a_git_data, a_content_result, a_qa_result,
                   a_validation_result, a_commit_result, a_commits>>
    /\ UNCHANGED <<d_vars, c_vars, r_vars, o_vars, f_vars, e_vars, t_vars, p_vars, q_vars, g_vars, l_vars, v_vars, k_vars, m_vars>>

\* step 4: validate_and_commit, which creates the file and, with
\* auto_commit, commits it
AgentValidateAndCommit ==
    /\ a_pc = "validate_and_commit"
    /\ \E out \in AgentQaOutcomes :
         /\ a_qa_result' = out
         /\ a_commits' = IF out.committed THEN Append(a_commits, "qa_agent") ELSE a_commits
         /\ IF out.kind = "raise"
            THEN a_return' = AgentFailure(out.msg) /\ a_pc' = "done"
            ELSE IF QaFailed(out)
                 THEN /\ a_return' = Failed(None, <<"Quality assurance failed: ">>
                                                    \o Join("; ", out.issues))
                      /\ a_pc' = "done"
                 ELSE a_pc' = "validate_entry" /\ UNCHANGED a_return
    /\ a_invoked' = Append(a_invoked, "validate_and_commit")
    /\ UNCHANGED <<a_git_data, a_content_result, a_fact_check_result,
                   a_validation_result, a_commit_result>>
    /\ UNCHANGED <<d_vars, c_vars, r_vars, o_vars, f_vars, e_vars, t_vars, p_vars, q_vars, g_vars, l_vars, v_vars, k_vars, m_vars>>

\* step 5: validate_entry; when the QA agent has committed already, run_day
\* returns success without calling the commit agent
AgentValidateEntry ==
    /\ a_pc = "validate_entry"
    /\ \E out \in AgentValidateOutcomes :
         /\ a_validation_result' = out
         /\ IF out.kind = "raise"
            THEN a_return' = AgentFailure(out.msg) /\ a_pc' = "done"
            ELSE IF ~out.valid
                 THEN /\ a_return' = Failed(EntryPath(a_qa_result),
                                            <<"Validation failed: ">> \o Join("; ", out.issues))
                      /\ a_pc' = "done"
                 ELSE IF a_qa_result.committed
                      THEN /\ a_return' = Success(EntryPath(a_qa_result),
                                                  Str(<<"committed_by_qa_agent">>))
                           /\ a_pc' = "done"
                      ELSE a_pc' = "commit_entry" /\ UNCHANGED a_return
    /\ a_invoked' = Append(a_invoked, "validate_entry")
    /\ UNCHANGED <<a_git_data, a_content_result, a_fact_check_result, a_qa_result,
                   a_commit_result, a_commits>>
    /\ UNCHANGED <<d_vars, c_vars, r_vars, o_vars, f_vars, e_vars, t_vars, p_vars, q_vars, g_vars, l_vars, v_vars, k_vars, m_vars>>

\* step 6: commit_entry; no success is only logged
AgentCommitEntry ==
    /\ a_pc = "commit_entry"
    /\ \E out \in AgentCommitOutcomes :
         /\ a_commit_result' = out
         /\ a_commits' = IF out.success THEN Append(a_commits, "commit_agent") ELSE a_commits
         /\ a_return' = IF out.kind = "raise" THEN AgentFailure(out.msg)
                        ELSE Success(EntryPath(a_qa_result),
                                     IF out.success THEN out.commit_hash ELSE None)
    /\ a_pc' = "done"
    /\ a_invoked' = Append(a_invoked, "commit_entry")
    /\ UNCHANGED <<a_git_data, a_content_result, a_fact_check_result, a_qa_result,
                   a_validation_result>>
    /\ UNCHANGED <<d_vars, c_vars, r_vars, o_vars, f_vars, e_vars, t_vars, p_vars, q_vars, g_vars, l_vars, v_vars, k_vars, m_vars>>

AgentNext ==
    \/ AgentAnalyzeDay
    \/ AgentGenerateEntry
    \/ AgentCheckEntry
    \/ AgentValidateAndCommit
    \/ AgentValidateEntry
    \/ AgentCommitEntry

SpecAgent == AgentInit /\ [][AgentNext]_vars

\* step k was invoked and did not fail
StepPassed(k) ==
    CASE k = 1 -> a_git_data.kind = "ok" /\ a_git_data.is_work_day
      [] k = 2 -> a_content_result.kind = "ok" /\ a_content_result.status = "complete"
      [] k = 3 -> a_fact_check_result.kind = "ok" /\ a_fact_check_result.status # "fail"
      [] k = 4 -> a_qa_result.kind = "ok" /\ a_qa_result.status = "pass"
      [] k = 5 -> a_validation_result.kind = "ok" /\ a_validation_result.valid
      [] k = 6 -> a_commit_result.kind = "ok"

\* the steps invoked are the first n steps, in order
InvokedUpTo(n) == a_invoked = SubSeq(StepNames, 1, n)

\* the last step invoked failed, every step before it passed
FailedAtLastStep ==
    /\ a_invoked # <<>>
    /\ \A k \in 1..(Len(a_invoked) - 1) : StepPassed(k)
    /\ ~StepPassed(Len(a_invoked))

SuccessOnlyThroughAllGates ==
    /\ \A k \in 1..5 : StepPassed(k)
    /\ InvokedUpTo(5) \/ (InvokedUpTo(6) /\ StepPassed(6))

\* the message the failing step gave is the empty string
FailingMessageEmpty ==
    LET n == Len(a_invoked)
        r == CASE n = 1 -> a_git_data [] n = 2 -> a_content_result
               [] n = 3 -> a_fact_check_result [] n = 4 -> a_qa_result
               [] n = 5 -> a_validation_result [] OTHER -> a_commit_result
    IN  \/ r.kind = "raise" /\ r.msg = ""
        \/ n = 2 /\ r.kind = "ok" /\ r.error = <<>>

\* C7 as stated: success only through all five gates in order; a failure
\* returns 'failed' with a non-empty error and no later step is invoked.
C7_Original ==
    a_pc = "done" =>
       /\ a_return.status = "success" => SuccessOnlyThroughAllGates
       /\ a_return.status = "failed"
             => /\ FailedAtLastStep
                /\ \E n \in 1..6 : InvokedUpTo(n)
                /\ ~a_return.error.is_none
                /\ a_return.error.text # <<>>

\* C7 amended: success only through all five gates in order; a failure
\* returns 'failed' with error set (not None) and no later step is invoked;
\* the error is the empty string exactly when the failing step's exception,
\* or the error reported by generation, has an empty message.
C7_GatedSteps ==
    /\ \E n \in 0..6 : InvokedUpTo(n)
    /\ a_pc = "done" =>
          /\ a_return.status \in {"success", "skipped", "failed"}
          /\ a_return.status = "success"
                => (SuccessOnlyThroughAllGates /\ a_return.error.is_none)
          /\ a_return.status = "failed"
                => /\ FailedAtLastStep
                   /\ ~a_return.error.is_none
                   /\ a_return.error.text = <<>> <=> FailingMessageEmpty

\* generation reported a failure with an empty error text: run_day returns
\* 'failed' with error '' and invoked nothing after generate_entry
C7_Witness ==
    /\ a_pc = "done"
    /\ a_return.status = "failed"
    /\ a_return.error = Str(<<>>)
    /\ InvokedUpTo(2)
    /\ a_content_result.kind = "ok"

(***************************************************************************)
(* Specification SpecBoth: one run_day of either orchestrator, for the     *)
(* properties stated of both.                                              *)
(***************************************************************************)
BothInit == Init \/ AgentInit

BothNext == Next \/ AgentNext

SpecBoth == BothInit /\ [][BothNext]_vars

\* the aggregator returned git_data with is_work_day false
OrchestratorNoWork ==
    /\ Done
    /\ o_stages.git_analysis.status = "complete"
    /\ ~o_stages.git_analysis.is_work_day

AgentNoWork ==
    /\ a_pc = "done"
    /\ a_git_data.kind = "ok"
    /\ ~a_git_data.is_work_day

NoLaterStage ==
    \A c \in {"generate_entry", "verify_facts", "check_quality", "commit_final_entry",
              "push_to_remote", "notify"} : o_calls[c] = 0

AgentSkippedDirectly ==
    /\ a_return = [status |-> "skipped", entry_path |-> None, commit_hash |-> None,
                   error |-> None]
    /\ a_invoked = <<"analyze_day">>
    /\ a_commits = <<>>

QaEvaluated ==
    /\ o_stages.quality_assurance # NoStage
    /\ o_pc \in {"commit_final_entry", "done"}

LastDecision == IF o_decisions = <<>> THEN <<"none", <<>>>> ELSE o_decisions[Len(o_decisions)]

\* the acceptance condition in the words of C12
StatedAcceptance ==
    /\ o_stages.quality_assurance.status # "failed"
    /\ \/ o_stages.quality_assurance.score >= QaPassScore
       \/ LastDecision = <<"quality_assurance", S_accept>>

RunAccepted == o_pc = "commit_final_entry" \/ (Done /\ o_summary.final_status = "success")

\* C12: _evaluate_qa_result accepts iff the QA status is not 'failed' and
\* the score is at least 7 or the arbitration resolves to 'accept'; an
\* arbitration of 'reject' or 'retry' gives 'quality_check_failed', an error
\* entry, a notification and no final commit.
C12_AcceptIffScoreOrArbitration ==
    QaEvaluated =>
       /\ RunAccepted <=> StatedAcceptance
       /\ LastDecision \in {<<"quality_assurance", S_reject>>, <<"quality_assurance", S_retry>>}
             => /\ o_summary.final_status = "quality_check_failed"
                /\ o_summary.errors # <<>>
                /\ o_summary.errors[Len(o_summary.errors)]
                      = "Quality check failed - needs improvement"
                /\ o_calls["notify"] >= 1
                /\ o_calls["commit_final_entry"] = 0
                /\ ~FinalCommitMade

\* a score below 7 and the arbitration resolved to 'retry'
C12_Witness ==
    /\ Done
    /\ o_stages.quality_assurance.status # "failed"
    /\ o_stages.quality_assurance.score < QaPassScore
    /\ LastDecision = <<"quality_assurance", S_retry>>
    /\ o_summary.final_status = "quality_check_failed"

ConsultedFor(stage) == \E k \in 1..Len(o_decisions) : o_decisions[k][1] = stage

\* C13: a failed generation attempt, whether generate_entry raises or
\* returns status 'failed', is retried until max_retries attempts have been
\* made, and only then is the LLM consulted.
C13_FailedGenerationRetried ==
    /\ ( /\ o_pc = "after_content_generation"
         /\ o_stages.content_generation.status # "complete" )
          => o_calls["generate_entry"] = o_config.max_retries
    /\ (o_pc = "content_generation_decision" \/ ConsultedFor("content_generation"))
          => o_calls["generate_entry"] = o_config.max_retries

(***************************************************************************)
(* Specification SpecFallback: the arbitration after the last failed       *)
(* attempt of _run_content_generation, on every git_data of the bounded    *)
(* sets and every behaviour of the arbitration call.                       *)
(***************************************************************************)
MaxRepos == 2
MaxMessages == 6

RepoNamePool == <<"journal", "api", "web", "cli">>

MessagePool ==
    <<"feat: one", "fix: two", "docs: three", "test: four", "chore: five",
      "feat: six", "fix: seven", "docs: eight">>

\* repo_data of analyze_day: one commit message per commit
RepoData(name, n) ==
    [name |-> name, commits |-> n, commit_messages |-> SubSeq(MessagePool, 1, n)]

RepoSequences ==
    UNION {{r \in [1..len -> {RepoData(RepoNamePool[i], n) : i \in 1..MaxRepos, n \in 1..MaxMessages}] :
              \A i, j \in 1..len : i # j => r[i].name # r[j].name} : len \in 1..MaxRepos}

RECURSIVE TotalCommits(_)
TotalCommits(repos) ==
    IF repos = <<>> THEN 0 ELSE Head(repos).commits + TotalCommits(Tail(repos))

\* git_data of a work day as analyze_day builds it
GitDataOf(repos) ==
    [date |-> "2025-12-31", is_work_day |-> TRUE,
     total_commits |-> TotalCommits(repos),
     total_loc_added |-> 120 * TotalCommits(repos),
     total_loc_deleted |-> 7 * TotalCommits(repos),
     estimated_hours |-> 5 * TotalCommits(repos),
     repos |-> repos]

FallbackInit ==
    /\ f_pc = "arbitrate"
    /\ f_git_data \in {GitDataOf(r) : r \in RepoSequences}
    /\ f_llm \in ArbitrationBehaviours
    /\ f_result = [status |-> "pending", full_markdown |-> <<>>, error |-> "none"]
    /\ f_chat_calls = 0
    /\ DecisionIdle
    /\ CompileIdle
    /\ RetryIdle
    /\ OrchestratorIdle
    /\ AgentIdle
    /\ CheckEntryIdle
    /\ AccuracyIdle
    /\ LegendIdle
    /\ ModesIdle
    /\ AnalysisIdle
    /\ ConsistencyIdle
    /\ ValidatorIdle
    /\ QualityIdle
    /\ CacheIdle

\* the except block of the last attempt of _run_content_generation
FallbackArbitration ==
    /\ f_pc = "arbitrate"
    /\ LET decision == GetOpencodeDecision(f_llm, GenMenu).value
       IN  f_result' =
             IF decision = S_retry
             THEN [f_result EXCEPT !.status = "failed", !.error = "Max retries exceeded"]
             ELSE IF decision = S_use_fallback
                  THEN [f_result EXCEPT !.status = "fallback",
                                        !.full_markdown = GenerateFallbackContent(f_git_data)]
                  ELSE [f_result EXCEPT !.status = "failed", !.error = "Test error"]
    /\ f_chat_calls' = f_chat_calls + 1
    /\ f_pc' = "returned"
    /\ UNCHANGED <<f_git_data, f_llm>>
    /\ UNCHANGED <<d_vars, c_vars, r_vars, o_vars, a_vars, e_vars, t_vars, p_vars, q_vars, g_vars, l_vars, v_vars, k_vars, m_vars>>

SpecFallback == FallbackInit /\ [][FallbackArbitration]_vars

ResolvedToFallback ==
    /\ f_pc = "returned"
    /\ GetOpencodeDecision(f_llm, GenMenu).value = S_use_fallback

IsRepoLine(l) == Len(l) = 7 /\ l[1] = "- " /\ l[2] = Backquote

IsMessageLine(l) == Len(l) = 2 /\ l[1] = "- "

RECURSIVE MessagesShown(_)
MessagesShown(repos) ==
    IF repos = <<>> THEN 0
    ELSE Min(5, Len(Head(repos).commit_messages)) + MessagesShown(Tail(repos))

\* C14: when the arbitration resolves to 'use_fallback' the stage result
\* has status 'fallback' and its text is the fallback text of git_data: the
\* header with the date, one list line per repository with its commit
\* count, the first 5 commit messages of each repository and no more, and
\* no chat call besides the arbitration itself.
C14_FallbackText ==
    ResolvedToFallback =>
       LET text == f_result.full_markdown
           repos == f_git_data.repos
       IN  /\ f_result.status = "fallback"
           /\ text = GenerateFallbackContent(f_git_data)
           /\ f_chat_calls = 1
           /\ text[1] = <<"# ", f_git_data.date>>
           /\ SelectSeq(text, IsRepoLine)
                 = [i \in 1..Len(repos) |->
                      <<"- ", Backquote, repos[i].name, Backquote, " (",
                        ToString(repos[i].commits), " commits)">>]
           /\ Len(SelectSeq(text, IsMessageLine)) = MessagesShown(repos)
           /\ \A i \in 1..Len(repos) :
                 \A k \in 1..Len(repos[i].commit_messages) :
                    (k <= 5) <=> (<<"- ", repos[i].commit_messages[k]>> \in Range(text))

\* a fallback text of two repositories, one of them with more than 5 commits
C14_Witness ==
    /\ ResolvedToFallback
    /\ f_result.status = "fallback"
    /\ Len(f_git_data.repos) = 2
    /\ \E i \in 1..2 : Len(f_git_data.repos[i].commit_messages) > 5

(***************************************************************************)
(* Commit failure after acceptance, in both orchestrators (SpecBoth).      *)
(***************************************************************************)

\* CommitAgent.commit_entry returned a dict with success False
AgentCommitFailed ==
    /\ a_pc = "done"
    /\ a_commit_result.kind = "ok"
    /\ ~a_commit_result.success

\* _commit_final_entry ran and stage_and_commit returned False or raised
OrchestratorCommitFailed ==
    /\ Done
    /\ o_calls["commit_final_entry"] > 0
    /\ ~FinalCommitMade

\* C15: when the entry has been accepted but the commit collaborator reports
\* failure, run_day still returns the success outcome: OrchestratorAgent
\* status 'success' with commit_hash None, Orchestrator final_status
\* 'success' with no commit_hash recorded.
C15_CommitFailureKeepsSuccess ==
    /\ AgentCommitFailed =>
          /\ a_return.status = "success"
          /\ a_return.commit_hash = None
          /\ a_return.error = None
    /\ OrchestratorCommitFailed =>
          /\ o_summary.final_status = "success"
          /\ o_summary.commit_hash = NewSummary.commit_hash
          /\ o_summary.is_work_day

\* stage_and_commit raised inside _commit_final_entry and the day succeeded
C15_Witness ==
    /\ OrchestratorCommitFailed
    /\ "stage_and_commit" \in o_raised
    /\ o_summary.final_status = "success"

(***************************************************************************)
(* The default configuration (Spec).                                       *)
(***************************************************************************)

\* a configuration with exactly the keys of DEFAULT_CONFIG: no
\* opencode.max_retries entry
DefaultConfigKeys == ~o_config.has_max_retries

\* no collaborator that was called departed from a work day, a complete
\* generation and an overall_quality of at least 7
CollaboratorsCooperate ==
    /\ o_raised \subseteq {"config"}
    /\ o_stages.git_analysis.status = "complete" => o_stages.git_analysis.is_work_day
    /\ o_stages.content_generation.status \in {"absent", "complete"}
    /\ o_stages.quality_assurance.status # "absent" =>
          /\ ~o_stages.quality_assurance.malformed
          /\ o_stages.quality_assurance.score >= QaPassScore

\* C16: with a configuration that has exactly the keys of DEFAULT_CONFIG,
\* when the aggregator reports a work day, generation returns status
\* 'complete' and the QA review scores at least 7, Orchestrator.run_day
\* returns final_status 'success' with is_work_day True.
C16_DefaultConfigSucceeds ==
    (Done /\ DefaultConfigKeys /\ CollaboratorsCooperate) =>
        /\ o_summary.final_status = "success"
        /\ o_summary.is_work_day

(***************************************************************************)
(* Specification SpecCheckEntry: FactCheckingAgent.check_entry called      *)
(* twice on the same git_data and markdown, each call with its own         *)
(* behaviour of client.chat.                                               *)
(***************************************************************************)
\* what client.chat does: raises, returns None, or returns a dict with content
AnalysisReplies ==
    {LlmRaise, LlmNone, LlmSay(<<>>), LlmSay(S_maybe),
     LlmSay(Pad(MaxPad) \o S_maybe \o Pad(MaxPad))}

LlmAnalysisUnguarded(llm) ==
    IF llm.kind = "content"
    THEN [raised |-> FALSE, text |-> Strip(llm.content)]
    ELSE [raised |-> TRUE, text |-> <<>>]

\* _generate_llm_analysis: response.get("content", "").strip(), and the
\* message of the except block when chat raises or returns no dict
LlmAnalysis(llm) ==
    IF llm.kind = "content"
    THEN [raised |-> FALSE, text |-> Strip(llm.content)]
    ELSE [raised |-> FALSE, text |-> <<"LLM analysis failed: ", llm.kind>>]

\* the except block of check_entry
CheckEntryExcept ==
    [status |-> "fail",
     errors |-> << <<"Fact-checking failed: ">> >>,
     warnings |-> <<>>, corrections |-> <<>>,
     reasoning |-> <<"Critical error during analysis: ">>]

\* check_entry: the five checks, the LLM analysis, _compile_results
CheckEntry(given, llm) ==
    IF given.raised THEN CheckEntryExcept
    ELSE LET analysis == LlmAnalysis(llm)
             r == CompileResults(given.checks)
         IN  IF analysis.raised THEN CheckEntryExcept
             ELSE [status |-> r.status,
                   errors |-> FormatIssues(r.errors),
                   warnings |-> FormatIssues(r.warnings),
                   corrections |-> r.corrections,
                   reasoning |-> analysis.text]

\* the checks read git_data and the markdown only; one of them can raise
\* (a division by zero in _check_anomalies, a missing key)
GivenChecks ==
    {[raised |-> TRUE, checks |-> NoChecks]}
    \cup {[raised |-> FALSE,
           checks |-> ChecksOf(ac, PassedVerdict, PassedVerdict, PassedVerdict, an)] :
            ac \in VerdictsOf("accuracy"), an \in AnomalyVerdicts}

CheckEntryInit ==
    /\ e_pc = <<"call", "call">>
    /\ e_checks \in GivenChecks
    /\ e_llm \in AnalysisReplies \X AnalysisReplies
    /\ e_result = <<NoReply, NoReply>>
    /\ DecisionIdle
    /\ CompileIdle
    /\ RetryIdle
    /\ OrchestratorIdle
    /\ AgentIdle
    /\ FallbackIdle
    /\ AccuracyIdle
    /\ LegendIdle
    /\ ModesIdle
    /\ AnalysisIdle
    /\ ConsistencyIdle
    /\ ValidatorIdle
    /\ QualityIdle
    /\ CacheIdle

CheckEntryCall ==
    \E i \in 1..2 :
        /\ e_pc[i] = "call"
        /\ e_result' = [e_result EXCEPT ![i] = CheckEntry(e_checks, e_llm[i])]
        /\ e_pc' = [e_pc EXCEPT ![i] = "done"]
        /\ UNCHANGED <<e_checks, e_llm>>
        /\ UNCHANGED <<d_vars, c_vars, r_vars, o_vars, a_vars, f_vars, t_vars, p_vars, q_vars, g_vars, l_vars, v_vars, k_vars, m_vars>>

SpecCheckEntry == CheckEntryInit /\ [][CheckEntryCall]_vars

BothReturned == e_pc = <<"done", "done">>

Verdicts(r) == <<r.status, r.errors, r.warnings, r.corrections>>

\* C17: the LLM review in check_entry is advisory only: for the same
\* git_data and markdown, the returned status, errors, warnings and
\* corrections are identical for any two LLM responses, including the LLM
\* call raising; the response only determines the 'reasoning' field.
C17_LlmIsAdvisory ==
    BothReturned => Verdicts(e_result[1]) = Verdicts(e_result[2])

\* one call saw chat raise, the other got a reply; the entry failed its
\* checks in both and the reasoning differs
C17_Witness ==
    /\ BothReturned
    /\ e_llm[1] = LlmRaise
    /\ e_llm[2].kind = "content"
    /\ ~e_checks.raised
    /\ e_result[1].status = "fail"
    /\ e_result[2].status = "fail"
    /\ e_result[1].reasoning # e_result[2].reasoning

(***************************************************************************)
(* Specification SpecAccuracy: FactCheckingAgent._check_accuracy, on texts *)
(* put together from bounded pieces and on the text that                   *)
(* ContentGenerationAgent._generate_repositories_section renders.  A text  *)
(* is a sequence of characters; the fixed words of the two patterns are    *)
(* single elements.                                                        *)
(***************************************************************************)
DigitChars == <<"0", "1", "2", "3", "4", "5", "6", "7", "8", "9">>

IsDigit(c) == c \in Range(DigitChars)

\* str(n) of a non-negative int
RECURSIVE Decimal(_)
Decimal(n) ==
    IF n < Len(DigitChars) THEN <<DigitChars[n + 1]>>
    ELSE Decimal(n \div Len(DigitChars)) \o <<DigitChars[(n % Len(DigitChars)) + 1]>>

DigitValue(c) == (CHOOSE d \in DOMAIN DigitChars : DigitChars[d] = c) - 1

\* int(match) on a string of digits
RECURSIVE ParseInt(_)
ParseInt(ds) ==
    IF ds = <<>> THEN 0
    ELSE Len(DigitChars) * ParseInt(SubSeq(ds, 1, Len(ds) - 1)) + DigitValue(ds[Len(ds)])

\* \s* and \d+ are greedy: the first position at or after p that holds no
\* whitespace (no digit)
RECURSIVE SkipSpaces(_, _)
SkipSpaces(text, p) ==
    IF p <= Len(text) /\ text[p] \in Whitespace THEN SkipSpaces(text, p + 1) ELSE p

RECURSIVE SkipDigits(_, _)
SkipDigits(text, p) ==
    IF p <= Len(text) /\ IsDigit(text[p]) THEN SkipDigits(text, p + 1) ELSE p

At(text, p) == IF p <= Len(text) THEN text[p] ELSE "END"

Literal(text, p, lit) ==
    /\ p + Len(lit) - 1 <= Len(text)
    /\ SubSeq(text, p, p + Len(lit) - 1) = lit

NoMatch == [matched |-> FALSE, end |-> 0, group |-> <<>>]

\* (\d+)\s*commits? followed by `close`, from position p
CountMatch(text, p, close) ==
    LET q == SkipDigits(text, p)
        c == SkipSpaces(text, q)
        s == IF At(text, c + 1) = "s" THEN c + 2 ELSE c + 1
        e == IF close = ")" THEN SkipSpaces(text, s) ELSE s
    IN  IF q > p /\ At(text, c) = "commit" /\ At(text, e) = close
        THEN [matched |-> TRUE, end |-> e + 1, group |-> SubSeq(text, p, q - 1)]
        ELSE NoMatch

\* rf"`~/code/{re.escape(repo_name)}`\s*\(\s*(\d+)\s*commits?\s*\)" at p
RepoPatternAt(text, p, name) ==
    LET lit == <<Backquote, "~/code/">> \o name \o <<Backquote>>
        open == SkipSpaces(text, p + Len(lit))
    IN  IF Literal(text, p, lit) /\ At(text, open) = "("
        THEN CountMatch(text, SkipSpaces(text, open + 1), ")")
        ELSE NoMatch

\* r"- \*\*Total:\s*(\d+)\s*commits?\*\*" at p
TotalPatternAt(text, p) ==
    LET lit == <<"- ", "**", "Total:">>
    IN  IF Literal(text, p, lit)
        THEN CountMatch(text, SkipSpaces(text, p + Len(lit)), "**")
        ELSE NoMatch

\* re.findall: the groups of the matches, left to right, without overlap
RECURSIVE FindAll(_, _, _)
FindAll(text, p, name) ==
    IF p > Len(text) THEN <<>>
    ELSE LET m == RepoPatternAt(text, p, name)
         IN  IF m.matched THEN <<m.group>> \o FindAll(text, m.end, name)
             ELSE FindAll(text, p + 1, name)

\* re.search: the group of the leftmost match, if any
RECURSIVE SearchTotal(_, _)
SearchTotal(text, p) ==
    IF p > Len(text) THEN <<>>
    ELSE LET m == TotalPatternAt(text, p)
         IN  IF m.matched THEN <<m.group>> ELSE SearchTotal(text, p + 1)

Missing(name) == [kind |-> "missing", repo |-> name, expected |-> 0, found |-> 0]

Mismatch(name, expected, found) ==
    [kind |-> "mismatch", repo |-> name, expected |-> expected, found |-> found]

TotalMismatch(expected, found) ==
    [kind |-> "total", repo |-> <<>>, expected |-> expected, found |-> found]

\* the issues of one repository: the loop body of _check_accuracy
RepoAccuracyIssues(repo, text) ==
    LET matches == FindAll(text, 1, repo.name)
        found == [k \in 1..Len(matches) |-> ParseInt(matches[k])]
    IN  (IF matches = <<>> /\ repo.commits > 0 THEN <<Missing(repo.name)>> ELSE <<>>)
        \o SelectSeq([k \in 1..Len(found) |-> Mismatch(repo.name, repo.commits, found[k])],
                     LAMBDA i : i.found # i.expected)

RECURSIVE ReposAccuracyIssues(_, _)
ReposAccuracyIssues(repos, text) ==
    IF repos = <<>> THEN <<>>
    ELSE RepoAccuracyIssues(Head(repos), text) \o ReposAccuracyIssues(Tail(repos), text)

TotalAccuracyIssues(git_data, text) ==
    LET total_match == SearchTotal(text, 1)
    IN  IF total_match # <<>> /\ ParseInt(total_match[1]) # git_data.total_commits
        THEN <<TotalMismatch(git_data.total_commits, ParseInt(total_match[1]))>>
        ELSE <<>>

\* FactCheckingAgent._check_accuracy; one correction is appended with
\* every issue
CheckAccuracy(git_data, text) ==
    LET issues == ReposAccuracyIssues(git_data.repos, text)
                  \o TotalAccuracyIssues(git_data, text)
    IN  [passed |-> issues = <<>>, issues |-> issues, corrections |-> Len(issues)]

RepositoryLineBare(repo) ==
    <<"- ", Backquote>> \o repo.name \o <<Backquote, " ", "(">>
    \o Decimal(repo.commits) \o <<" ", "commit", "s", ")">>

\* f"- `~/code/{repo_name}` ({repo_data['commits']} commits)"
RepositoryLine(repo) ==
    <<"- ", Backquote, "~/code/">> \o repo.name \o <<Backquote, " ", "(">>
    \o Decimal(repo.commits) \o <<" ", "commit", "s", ")">>

\* f"- **Total: {total} commits**"
TotalLine(total) ==
    <<"- ", "**", "Total:", " ">> \o Decimal(total) \o <<" ", "commit", "s", "**">>

RECURSIVE SumCommits(_)
SumCommits(repos) ==
    IF repos = <<>> THEN 0 ELSE Head(repos).commits + SumCommits(Tail(repos))

\* ContentGenerationAgent._generate_repositories_section
GenerateRepositoriesSection(git_data) ==
    Join("\n",
         << <<"## Repositories Worked On">>, <<>> >>
         \o [k \in 1..Len(git_data.repos) |-> RepositoryLine(git_data.repos[k])]
         \o << <<>>, TotalLine(SumCommits(git_data.repos)), <<>> >>)

MaxFragments == 2

\* repository names, one a prefix of the other
Name_a == <<"a">>
Name_ab == <<"a", "b">>

CountSamples == {0, 1, 12}

\* git_data["repos"] and git_data["total_commits"]; only analyze_day keeps
\* total_commits equal to the sum
AccuracyGitData ==
    {[repos |-> r, total_commits |-> SumCommits(r) + d] :
        r \in {<<>>}
              \cup {<<[name |-> Name_a, commits |-> n]>> : n \in CountSamples}
              \cup {<<[name |-> Name_a, commits |-> n], [name |-> Name_ab, commits |-> m]>> :
                       n, m \in CountSamples},
        d \in {0, 1}}

\* a piece of text known to hold the count m for a repository, a total N,
\* or neither
Occurrence(name, m, chars) == [kind |-> "repo", repo |-> name, count |-> m, chars |-> chars]

TotalStated(n, chars) == [kind |-> "total", repo |-> <<>>, count |-> n, chars |-> chars]

Noise(chars) == [kind |-> "noise", repo |-> <<>>, count |-> 0, chars |-> chars]

FragmentPool ==
    {Occurrence(Name_a, 1, RepositoryLine([name |-> Name_a, commits |-> 1])),
     Occurrence(Name_a, 12,
                <<Backquote, "~/code/">> \o Name_a \o <<Backquote, "(", "1", "2", "commit", ")">>),
     Occurrence(Name_ab, 12, RepositoryLine([name |-> Name_ab, commits |-> 12])),
     Occurrence(Name_ab, 1,
                <<Backquote, "~/code/">> \o Name_ab
                \o <<Backquote, "\n", "(", " ", "0", "1", " ", "commit", "s", " ", ")">>),
     TotalStated(1, TotalLine(1)),
     TotalStated(13, <<"- ", "**", "Total:", "1", "3", "commit", "**">>),
     Noise(RepositoryLineBare([name |-> Name_a, commits |-> 1])),
     Noise(<<"Total:", " ", "1", " ", "commit", "s">>)}

FragmentSequences == UNION {[1..n -> FragmentPool] : n \in 0..MaxFragments}

TextOf(fragments) == Join("\n", [k \in 1..Len(fragments) |-> fragments[k].chars])

AccuracyInit ==
    /\ t_git_data \in AccuracyGitData
    /\ \/ /\ t_pc = "check"
          /\ t_fragments \in FragmentSequences
          /\ t_text = TextOf(t_fragments)
       \/ /\ t_pc = "render"
          /\ t_fragments = <<>>
          /\ t_text = <<>>
    /\ t_result = NoVerdict
    /\ DecisionIdle
    /\ CompileIdle
    /\ RetryIdle
    /\ OrchestratorIdle
    /\ AgentIdle
    /\ FallbackIdle
    /\ CheckEntryIdle
    /\ LegendIdle
    /\ ModesIdle
    /\ AnalysisIdle
    /\ ConsistencyIdle
    /\ ValidatorIdle
    /\ QualityIdle
    /\ CacheIdle

RenderRepositories ==
    /\ t_pc = "render"
    /\ t_text' = GenerateRepositoriesSection(t_git_data)
    /\ t_pc' = "check_rendered"
    /\ UNCHANGED <<t_git_data, t_fragments, t_result>>
    /\ UNCHANGED <<d_vars, c_vars, r_vars, o_vars, a_vars, f_vars, e_vars, p_vars, q_vars, g_vars, l_vars, v_vars, k_vars, m_vars>>

CheckAccuracyCall ==
    /\ t_pc \in {"check", "check_rendered"}
    /\ t_result' = CheckAccuracy(t_git_data, t_text)
    /\ t_pc' = IF t_pc = "check" THEN "done" ELSE "done_rendered"
    /\ UNCHANGED <<t_git_data, t_fragments, t_text>>
    /\ UNCHANGED <<d_vars, c_vars, r_vars, o_vars, a_vars, f_vars, e_vars, p_vars, q_vars, g_vars, l_vars, v_vars, k_vars, m_vars>>

AccuracyNext == RenderRepositories \/ CheckAccuracyCall

SpecAccuracy == AccuracyInit /\ [][AccuracyNext]_vars

Count(s, x) == Cardinality({k \in DOMAIN s : s[k] = x})

SameBag(s, u) ==
    /\ Len(s) = Len(u)
    /\ \A x \in Range(s) \cup Range(u) : Count(s, x) = Count(u, x)

\* the counts the text is known to state for a repository, left to right
CountsStated(fragments, name) ==
    LET occ == SelectSeq(fragments, LAMBDA f : f.kind = "repo" /\ f.repo = name)
    IN  [k \in 1..Len(occ) |-> occ[k].count]

TotalsStated(fragments) ==
    LET tot == SelectSeq(fragments, LAMBDA f : f.kind = "total")
    IN  [k \in 1..Len(tot) |-> tot[k].count]

\* what C18 asks for one repository
RepoIssuesAsked(repo, fragments) ==
    LET stated == CountsStated(fragments, repo.name)
    IN  (IF stated = <<>> /\ repo.commits > 0 THEN <<Missing(repo.name)>> ELSE <<>>)
        \o SelectSeq([k \in 1..Len(stated) |-> Mismatch(repo.name, repo.commits, stated[k])],
                     LAMBDA i : i.found # i.expected)

RECURSIVE ReposIssuesAsked(_, _)
ReposIssuesAsked(repos, fragments) ==
    IF repos = <<>> THEN <<>>
    ELSE RepoIssuesAsked(Head(repos), fragments) \o ReposIssuesAsked(Tail(repos), fragments)

CheckedGivenText == t_pc = "done"

RepoIssuesAsAsked ==
    SameBag(SelectSeq(t_result.issues, LAMBDA i : i.kind # "total"),
            ReposIssuesAsked(t_git_data.repos, t_fragments))

TotalIssuesReported == Len(SelectSeq(t_result.issues, LAMBDA i : i.kind = "total"))

\* C18: _check_accuracy reports, for every repository, one mismatch issue
\* (naming the expected and the found count) for each occurrence of the
\* repository with a count different from its commit count, without stopping
\* at the first; one missing issue iff the repository has commits > 0 and no
\* occurrence exists; one total-mismatch issue iff a 'Total: N commits' line
\* is present with N != total_commits; passed is True iff no issue was
\* reported.
C18_AccuracyIssues ==
    CheckedGivenText =>
        /\ RepoIssuesAsAsked
        /\ TotalIssuesReported =
              (IF \E n \in Range(TotalsStated(t_fragments)) : n # t_git_data.total_commits
               THEN 1 ELSE 0)
        /\ t_result.passed = (t_result.issues = <<>>)

CheckedRenderedText == t_pc = "done_rendered"

\* C19: for any day summary whose total_commits equals the sum of its
\* repositories' commit counts, the text rendered from it by
\* _generate_repositories_section passes _check_accuracy against the same
\* summary with passed True and no issues.
C19_RenderedTextPasses ==
    (CheckedRenderedText /\ t_git_data.total_commits = SumCommits(t_git_data.repos)) =>
        /\ t_result.passed
        /\ t_result.issues = <<>>

\* two repositories, one name a prefix of the other, one count of two digits
C19_Witness ==
    /\ CheckedRenderedText
    /\ Len(t_git_data.repos) = 2
    /\ t_git_data.repos[1].commits = 1
    /\ t_git_data.repos[2].commits = 12
    /\ t_git_data.total_commits = 13
    /\ t_result.passed

(***************************************************************************)
(* Specification SpecLegend: two run_day invocations for different dates,  *)
(* each with its own agents, inside                                        *)
(* ContentGenerationAgent._generate_projects_legend.  Both use the file    *)
(* PROJECTS_CACHE_FILE of utils/cache.py.  A step is one access to the     *)
(* file or one call of the LLM; the steps of the two invocations           *)
(* interleave freely.  The cache is the set of project names it holds.     *)
(***************************************************************************)
MaxProjects == 2

ProjectPool == {RepoNamePool[k] : k \in 1..MaxProjects}

Invocations == {1, 2}

\* the file after json.dump, and after open(..., "w") has truncated it
FileWith(projects) == [valid |-> TRUE, projects |-> projects]

TruncatedFile == [valid |-> FALSE, projects |-> {}]

\* load_projects_cache: {} when the file is missing or is no JSON
LoadProjectsCache(file) == IF file.valid THEN file.projects ELSE {}

\* an LLM that does what the prompt asks: keeps the cached projects and
\* adds the mentioned ones that are missing
UpdatedProjects(cached_projects, mentioned_repos) == cached_projects \cup mentioned_repos

\* what client.chat does: JSON as asked, a text that is no JSON, an exception
LegendReplies == {"json", "not_json", "raise"}

LegendInit ==
    /\ p_pc = <<"load", "load">>
    /\ p_initial \in SUBSET ProjectPool
    /\ p_file = FileWith(p_initial)
    /\ p_mentioned \in (SUBSET ProjectPool \ {{}}) \X (SUBSET ProjectPool \ {{}})
    /\ p_reply \in LegendReplies \X LegendReplies
    /\ p_cached = <<{}, {}>>
    /\ p_updated = <<{}, {}>>
    /\ DecisionIdle
    /\ CompileIdle
    /\ RetryIdle
    /\ OrchestratorIdle
    /\ AgentIdle
    /\ FallbackIdle
    /\ CheckEntryIdle
    /\ AccuracyIdle
    /\ ModesIdle
    /\ AnalysisIdle
    /\ ConsistencyIdle
    /\ ValidatorIdle
    /\ QualityIdle
    /\ CacheIdle

\* cached_projects = load_projects_cache()
LegendLoad(i) ==
    /\ p_pc[i] = "load"
    /\ p_cached' = [p_cached EXCEPT ![i] = LoadProjectsCache(p_file)]
    /\ p_pc' = [p_pc EXCEPT ![i] = "chat"]
    /\ UNCHANGED <<p_file, p_initial, p_mentioned, p_reply, p_updated>>

\* client.chat and json.loads(content); only JSON leads to a save
LegendChat(i) ==
    /\ p_pc[i] = "chat"
    /\ IF p_reply[i] = "json"
       THEN /\ p_updated' = [p_updated EXCEPT ![i] = UpdatedProjects(p_cached[i], p_mentioned[i])]
            /\ p_pc' = [p_pc EXCEPT ![i] = "open"]
       ELSE /\ p_pc' = [p_pc EXCEPT ![i] = "done"]
            /\ UNCHANGED p_updated
    /\ UNCHANGED <<p_file, p_initial, p_mentioned, p_reply, p_cached>>

\* save_projects_cache: open(PROJECTS_CACHE_FILE, "w") truncates the file
LegendOpen(i) ==
    /\ p_pc[i] = "open"
    /\ p_file' = TruncatedFile
    /\ p_pc' = [p_pc EXCEPT ![i] = "dump"]
    /\ UNCHANGED <<p_initial, p_mentioned, p_reply, p_cached, p_updated>>

\* save_projects_cache: json.dump(projects, f) and the close of the file
LegendDump(i) ==
    /\ p_pc[i] = "dump"
    /\ p_file' = FileWith(p_updated[i])
    /\ p_pc' = [p_pc EXCEPT ![i] = "done"]
    /\ UNCHANGED <<p_initial, p_mentioned, p_reply, p_cached, p_updated>>

LegendNext ==
    \E i \in Invocations :
        /\ \/ LegendLoad(i)
           \/ LegendChat(i)
           \/ LegendOpen(i)
           \/ LegendDump(i)
        /\ UNCHANGED <<d_vars, c_vars, r_vars, o_vars, a_vars, f_vars, e_vars, t_vars, q_vars, g_vars, l_vars, v_vars, k_vars, m_vars>>

SpecLegend == LegendInit /\ [][LegendNext]_vars

\* the cache left by invocation i when it runs alone on a cache
AloneOn(projects, i) ==
    IF p_reply[i] = "json" THEN UpdatedProjects(projects, p_mentioned[i]) ELSE projects

\* the cache left by running i and then j, one after the other
OneAfterTheOther(i, j) == AloneOn(AloneOn(p_initial, i), j)

BothInvocationsDone == \A i \in Invocations : p_pc[i] = "done"

\* C20: two run_day invocations for different dates that run concurrently
\* share no mutable resource: under every interleaving the state they leave
\* behind, in particular the projects cache file, equals the state left by
\* running the two one after the other in some order, so no update of one
\* is lost to the other.
C20_CacheSerializable ==
    BothInvocationsDone =>
        /\ p_file.valid
        /\ p_file.projects \in {OneAfterTheOther(1, 2), OneAfterTheOther(2, 1)}

(***************************************************************************)
(* Specification SpecModes: run_day from fact checking to final_status,    *)
(* run with quality.parallel_agents off and with it on, on the same        *)
(* answers of verify_facts, check_quality and the arbitration LLM.  The    *)
(* steps of the two runs and of the two worker threads interleave freely.  *)
(***************************************************************************)
\* the first and the second answer of each agent, and the arbitration
FactAnswers == {r \in VerifyFactsResults : r.status # "error"}

ModeAnswers ==
    [fact : FactAnswers \X FactAnswers,
     qa : CheckQualityResults \X CheckQualityResults,
     llm : {LlmRaise, LlmSay(S_accept), LlmSay(S_reject)}]

PendingStages ==
    [fact_checking |-> NoStage, quality_assurance |-> NoStage, final_status |-> "skipped"]

ModesInit ==
    /\ q_pc = [seq |-> "fact_checking", par |-> "fact_checking"]
    /\ q_answers \in ModeAnswers
    /\ q_calls = [fact |-> 0, qa |-> 0]
    /\ q_futures = NoFutures
    /\ q_stages = [seq |-> PendingStages, par |-> PendingStages]
    /\ DecisionIdle
    /\ CompileIdle
    /\ RetryIdle
    /\ OrchestratorIdle
    /\ AgentIdle
    /\ FallbackIdle
    /\ CheckEntryIdle
    /\ AccuracyIdle
    /\ LegendIdle
    /\ AnalysisIdle
    /\ ConsistencyIdle
    /\ ValidatorIdle
    /\ QualityIdle
    /\ CacheIdle

\* run_day from _evaluate_qa_result on: the final_status it sets
FinalStatusAfterQa(qa, llm) ==
    IF qa.status = "failed" THEN Rejected(NewSummary).final_status
    ELSE IF qa.malformed THEN HandleException(NewSummary).final_status
    ELSE IF ScoreAccepts(qa) \/ GetOpencodeDecision(llm, QaMenu).value = S_accept
         THEN "success"
         ELSE Rejected(NewSummary).final_status

KeptQaAsFactCheck(futures) == futures.qa

\* fact_check_result, _ = self._run_parallel_checks(...)
KeptFactCheck(futures) == futures.fact_check

\* _, qa_result = self._run_parallel_checks(...)
KeptQa(futures) == futures.qa

\* parallel_agents off: verify_facts in the thread of run_day
SequentialFactChecking ==
    /\ q_pc.seq = "fact_checking"
    /\ q_stages' = [q_stages EXCEPT !.seq.fact_checking = FactStage(q_answers.fact[1])]
    /\ q_pc' = [q_pc EXCEPT !.seq = "quality_assurance"]
    /\ UNCHANGED <<q_answers, q_calls, q_futures>>

\* parallel_agents off: check_quality in the thread of run_day
SequentialQualityAssurance ==
    /\ q_pc.seq = "quality_assurance"
    /\ q_stages' = [q_stages EXCEPT !.seq.quality_assurance = QaStage(q_answers.qa[1])]
    /\ q_pc' = [q_pc EXCEPT !.seq = "evaluate_qa_result"]
    /\ UNCHANGED <<q_answers, q_calls, q_futures>>

\* a worker thread of _run_parallel_checks runs verify_facts
ParallelVerifyFacts ==
    /\ q_pc.par \in {"fact_checking", "quality_assurance"}
    /\ q_futures.fact_check = NoStage
    /\ q_futures' = [q_futures EXCEPT !.fact_check = FactStage(q_answers.fact[q_calls.fact + 1])]
    /\ q_calls' = [q_calls EXCEPT !.fact = @ + 1]
    /\ UNCHANGED <<q_pc, q_answers, q_stages>>

\* a worker thread of _run_parallel_checks runs check_quality
ParallelCheckQuality ==
    /\ q_pc.par \in {"fact_checking", "quality_assurance"}
    /\ q_futures.qa = NoStage
    /\ q_futures' = [q_futures EXCEPT !.qa = QaStage(q_answers.qa[q_calls.qa + 1])]
    /\ q_calls' = [q_calls EXCEPT !.qa = @ + 1]
    /\ UNCHANGED <<q_pc, q_answers, q_stages>>

\* _run_fact_checking, parallel_agents on: both futures have a result
ParallelJoinFactChecking ==
    /\ q_pc.par = "fact_checking"
    /\ q_futures.fact_check # NoStage /\ q_futures.qa # NoStage
    /\ q_stages' = [q_stages EXCEPT !.par.fact_checking = KeptFactCheck(q_futures)]
    /\ q_futures' = NoFutures
    /\ q_pc' = [q_pc EXCEPT !.par = "quality_assurance"]
    /\ UNCHANGED <<q_answers, q_calls>>

\* _run_quality_assurance, parallel_agents on: a second pair of futures
ParallelJoinQualityAssurance ==
    /\ q_pc.par = "quality_assurance"
    /\ q_futures.fact_check # NoStage /\ q_futures.qa # NoStage
    /\ q_stages' = [q_stages EXCEPT !.par.quality_assurance = KeptQa(q_futures)]
    /\ q_futures' = NoFutures
    /\ q_pc' = [q_pc EXCEPT !.par = "evaluate_qa_result"]
    /\ UNCHANGED <<q_answers, q_calls>>

\* _evaluate_qa_result and the branch of run_day on it, in either run
EvaluateIn(run) ==
    /\ q_pc[run] = "evaluate_qa_result"
    /\ q_stages' = [q_stages EXCEPT ![run].final_status =
                       FinalStatusAfterQa(q_stages[run].quality_assurance, q_answers.llm)]
    /\ q_pc' = [q_pc EXCEPT ![run] = "done"]
    /\ UNCHANGED <<q_answers, q_calls, q_futures>>

ModesNext ==
    /\ \/ SequentialFactChecking
       \/ SequentialQualityAssurance
       \/ ParallelVerifyFacts
       \/ ParallelCheckQuality
       \/ ParallelJoinFactChecking
       \/ ParallelJoinQualityAssurance
       \/ EvaluateIn("seq")
       \/ EvaluateIn("par")
    /\ UNCHANGED <<d_vars, c_vars, r_vars, o_vars, a_vars, f_vars, e_vars, t_vars, p_vars, g_vars, l_vars, v_vars, k_vars, m_vars>>

SpecModes == ModesInit /\ [][ModesNext]_vars

BothRunsDone == q_pc.seq = "done" /\ q_pc.par = "done"

\* each agent answers its second call as its first
SameAgentResponses ==
    /\ q_answers.fact[1] = q_answers.fact[2]
    /\ q_answers.qa[1] = q_answers.qa[2]

CategoryPrefixes ==
    << <<"f", "e", "a", "t">>, <<"f", "i", "x">>,
       <<"r", "e", "f", "a", "c", "t", "o", "r">>, <<"d", "o", "c", "s">>,
       <<"t", "e", "s", "t">>, <<"c", "h", "o", "r", "e">>, <<"p", "e", "r", "f">>,
       <<"s", "t", "y", "l", "e">>, <<"b", "u", "i", "l", "d">>, <<"c", "i">>,
       <<"r", "e", "v", "e", "r", "t">> >>

StartsWith(s, prefix) == Len(prefix) <= Len(s) /\ SubSeq(s, 1, Len(prefix)) = prefix

\* utils.git_utils.categorize_commit: the first alternative that matches
\* message.lower() at its start, else "other"
CategorizeCommit(message) ==
    LET hits == {k \in DOMAIN CategoryPrefixes : StartsWith(Lower(message), CategoryPrefixes[k])}
    IN  IF hits = {} THEN <<"o", "t", "h", "e", "r">>
        ELSE CategoryPrefixes[CHOOSE k \in hits : \A j \in hits : k <= j]

CategorizeCommitsOnce(messages) ==
    [c \in {CategorizeCommit(messages[k]) : k \in DOMAIN messages} |-> 1]

\* _categorize_commits: the number of commits per category
CategorizeCommits(messages) ==
    [c \in {CategorizeCommit(messages[k]) : k \in DOMAIN messages} |->
        Cardinality({k \in DOMAIN messages : CategorizeCommit(messages[k]) = c})]

M_feat == <<"f", "e", "a", "t", ":", " ", "a">>
M_Rerun == <<"R", "e", "r", "u", "n">>
M_revert == <<"R", "e", "v", "e", "r", "t", " ", "a">>
M_update == <<"u", "p", "d", "a", "t", "e">>

\* what git log gives for a repository on the date, and the numstat sums
CommitLogs == {<<>>, <<M_feat>>, <<M_feat, M_revert>>, <<M_update, M_feat, M_Rerun, M_feat>>}

LocSums == {<<0, 0>>, <<4, 1>>, <<12, 0>>}

\* _get_all_repos: directories with a .git directory; "journal" is one
ScannedRepos ==
    UNION {[1..n -> [messages : CommitLogs, loc : LocSums]] : n \in 0..MaxRepos}

NewResults ==
    [is_work_day |-> FALSE, total_commits |-> 0, total_loc_added |-> 0,
     total_loc_deleted |-> 0, repos |-> <<>>]

AnalysisInit ==
    /\ g_pc = "loop"
    /\ \E repos \in ScannedRepos :
         g_todo = [k \in DOMAIN repos |->
                      [name |-> RepoNamePool[k], messages |-> repos[k].messages,
                       loc |-> repos[k].loc]]
    /\ g_results = NewResults
    /\ g_repo_results = <<>>
    /\ DecisionIdle
    /\ CompileIdle
    /\ RetryIdle
    /\ OrchestratorIdle
    /\ AgentIdle
    /\ FallbackIdle
    /\ CheckEntryIdle
    /\ AccuracyIdle
    /\ LegendIdle
    /\ ModesIdle
    /\ ConsistencyIdle
    /\ ValidatorIdle
    /\ QualityIdle
    /\ CacheIdle

\* _should_scan_repo: not the journal itself
ShouldScanRepo(repo_name) == repo_name # "journal"

\* repo_data of analyze_day, without the fields no total is built from
AnalysisRepoData(repo) ==
    [name |-> repo.name,
     commits |-> Len(repo.messages),
     loc_added |-> repo.loc[1],
     loc_deleted |-> repo.loc[2],
     commits_by_category |-> CategorizeCommits(repo.messages),
     commit_messages |-> repo.messages]

\* one iteration of the loop of analyze_day
AnalyzeRepo ==
    /\ g_pc = "loop"
    /\ g_todo # <<>>
    /\ LET repo == Head(g_todo)
       IN  IF ShouldScanRepo(repo.name) /\ repo.messages # <<>>
           THEN /\ g_repo_results' = Append(g_repo_results, AnalysisRepoData(repo))
                /\ g_results' =
                     [g_results EXCEPT
                        !.total_commits = @ + Len(repo.messages),
                        !.total_loc_added = @ + repo.loc[1],
                        !.total_loc_deleted = @ + repo.loc[2]]
           ELSE UNCHANGED <<g_repo_results, g_results>>
    /\ g_todo' = Tail(g_todo)
    /\ UNCHANGED g_pc
    /\ UNCHANGED <<d_vars, c_vars, r_vars, o_vars, a_vars, f_vars, e_vars, t_vars,
                   p_vars, q_vars, l_vars, v_vars, k_vars, m_vars>>

\* after the loop: results["repos"], results["is_work_day"], return
AnalyzeReturn ==
    /\ g_pc = "loop"
    /\ g_todo = <<>>
    /\ g_results' = [g_results EXCEPT !.repos = g_repo_results,
                                      !.is_work_day = g_results.total_commits > 0]
    /\ g_pc' = "returned"
    /\ UNCHANGED <<g_todo, g_repo_results>>
    /\ UNCHANGED <<d_vars, c_vars, r_vars, o_vars, a_vars, f_vars, e_vars, t_vars,
                   p_vars, q_vars, l_vars, v_vars, k_vars, m_vars>>

AnalysisNext == AnalyzeRepo \/ AnalyzeReturn

SpecAnalysis == AnalysisInit /\ [][AnalysisNext]_vars

RECURSIVE SumOver(_, _)
SumOver(repos, field) ==
    IF repos = <<>> THEN 0 ELSE Head(repos)[field] + SumOver(Tail(repos), field)

RECURSIVE SumOfCounts(_, _)
SumOfCounts(counts, keys) ==
    IF keys = {} THEN 0
    ELSE LET k == CHOOSE x \in keys : TRUE
         IN  counts[k] + SumOfCounts(counts, keys \ {k})

FoldCase(c) ==
    CASE c = "LOC" -> "loc" [] c = "Loc" -> "loc" [] c = "Lines" -> "lines" [] OTHER -> c

Fold(text) == [i \in 1..Len(text) |-> FoldCase(text[i])]

\* (?:LOC|lines|lines of code): the alternatives in the order they are tried
LocWords == << <<"loc">>, <<"lines">>, <<"lines", " ", "of", " ", "code">> >>

\* [:\s]* is greedy
RECURSIVE SkipColonsSpaces(_, _)
SkipColonsSpaces(text, p) ==
    IF p <= Len(text) /\ (text[p] = ":" \/ text[p] \in Whitespace)
    THEN SkipColonsSpaces(text, p + 1) ELSE p

\* (?:,\d+)* is greedy
RECURSIVE SkipCommaGroups(_, _)
SkipCommaGroups(text, p) ==
    IF At(text, p) = "," /\ IsDigit(At(text, p + 1))
    THEN SkipCommaGroups(text, SkipDigits(text, p + 1)) ELSE p

\* one alternative of the word, then [:\s]*(\d+(?:,\d+)*), from position p
LocAlternativeAt(text, p, word) ==
    LET s == SkipColonsSpaces(text, p + Len(word))
        e == SkipCommaGroups(text, SkipDigits(text, s))
    IN  IF Literal(Fold(text), p, word) /\ IsDigit(At(text, s))
        THEN [matched |-> TRUE, end |-> e, group |-> SubSeq(text, s, e - 1)]
        ELSE NoMatch

\* loc_pattern at position p: the first alternative that matches
LocPatternAt(text, p) ==
    LET hits == {k \in DOMAIN LocWords : LocAlternativeAt(text, p, LocWords[k]).matched}
    IN  IF hits = {} THEN NoMatch
        ELSE LocAlternativeAt(text, p, LocWords[CHOOSE k \in hits : \A j \in hits : k <= j])

\* re.findall(loc_pattern, markdown_content, re.IGNORECASE)
RECURSIVE FindAllLoc(_, _)
FindAllLoc(text, p) ==
    IF p > Len(text) THEN <<>>
    ELSE LET m == LocPatternAt(text, p)
         IN  IF m.matched THEN <<m.group>> \o FindAllLoc(text, m.end)
             ELSE FindAllLoc(text, p + 1)

\* match.replace(",", "")
RemoveCommas(s) == SelectSeq(s, LAMBDA c : c # ",")

Abs(n) == IF n < 0 THEN 0 - n ELSE n

\* abs(found_loc - total_loc) > total_loc * 0.2
Deviates(found_loc, total_loc) == 5 * Abs(found_loc - total_loc) > total_loc

RECURSIVE LocIssues(_, _)
LocIssues(loc_matches, total_loc) ==
    IF loc_matches = <<>> THEN <<>>
    ELSE LET found_loc == ParseInt(RemoveCommas(Head(loc_matches)))
         IN  (IF Deviates(found_loc, total_loc)
              THEN << [kind |-> "loc", expected |-> total_loc, found |-> found_loc] >>
              ELSE <<>>)
             \o LocIssues(Tail(loc_matches), total_loc)

\* (\d{4}-\d{2}-\d{2}) at position p
DatePatternAt(text, p) ==
    /\ p + 9 <= Len(text)
    /\ \A k \in 0..9 :
          IF k \in {4, 7} THEN text[p + k] = "-" ELSE IsDigit(text[p + k])

DatesInMarkdown(text) ==
    {SubSeq(text, p, p + 9) : p \in {q \in 1..Len(text) : DatePatternAt(text, q)}}

CheckConsistency(git_data, markdown_content) ==
    LET total_loc == git_data.total_loc_added + git_data.total_loc_deleted
        loc == LocIssues(FindAllLoc(markdown_content, 1), total_loc)
        date == IF git_data.date # <<>> /\ git_data.date \notin DatesInMarkdown(markdown_content)
                THEN << [kind |-> "date", expected |-> 0, found |-> 0] >>
                ELSE <<>>
    IN  [passed |-> (loc \o date = <<>>), issues |-> loc \o date, corrections |-> <<>>]

ExpectedDate == <<"2", "0", "2", "5", "-", "0", "1", "-", "1", "5">>

ConsistencyGitData ==
    {[date |-> ExpectedDate, total_loc_added |-> 4000, total_loc_deleted |-> 800],
     [date |-> ExpectedDate, total_loc_added |-> 60, total_loc_deleted |-> 40]}

\* a line of the text and the numbers it states next to the word
Stating(numbers, chars) == [chars |-> chars, numbers |-> numbers]

ConsistencyFragments ==
    {Stating({4800}, <<"4", "8", "0", "0", " ", "LOC">>),
     Stating({4800}, <<"LOC", ":", " ", "4", ",", "8", "0", "0">>),
     Stating({100000}, <<"1", "0", "0", "0", "0", "0", " ", "lines", " ", "of", " ", "code">>),
     Stating({100000}, <<"Lines", " ", "of", " ", "code", " ", "1", "0", "0", "0", "0", "0">>),
     Stating({5000}, <<"lines", ":", "5", "0", "0", "0">>),
     Stating({}, <<"Date", ":", " ">> \o ExpectedDate),
     Stating({}, <<"Fixed", " ", "a", " ", "bug", ".">>)}

ConsistencyInit ==
    /\ l_pc = "check"
    /\ l_git_data \in ConsistencyGitData
    /\ l_fragments \in UNION {[1..n -> ConsistencyFragments] : n \in 0..MaxFragments}
    /\ l_result = <<>>
    /\ DecisionIdle
    /\ CompileIdle
    /\ RetryIdle
    /\ OrchestratorIdle
    /\ AgentIdle
    /\ FallbackIdle
    /\ CheckEntryIdle
    /\ AccuracyIdle
    /\ LegendIdle
    /\ ModesIdle
    /\ AnalysisIdle
    /\ ValidatorIdle
    /\ QualityIdle
    /\ CacheIdle

CheckConsistencyCall ==
    /\ l_pc = "check"
    /\ l_result' = CheckConsistency(l_git_data, TextOf(l_fragments))
    /\ l_pc' = "returned"
    /\ UNCHANGED <<l_git_data, l_fragments>>
    /\ UNCHANGED <<d_vars, c_vars, r_vars, o_vars, a_vars, f_vars, e_vars, t_vars,
                   p_vars, q_vars, g_vars, v_vars, k_vars, m_vars>>

SpecConsistency == ConsistencyInit /\ [][CheckConsistencyCall]_vars

NumbersStated == UNION {l_fragments[k].numbers : k \in DOMAIN l_fragments}

DateStated == \E k \in DOMAIN l_fragments : Literal(l_fragments[k].chars, 4, ExpectedDate)

HasLocIssue == \E k \in DOMAIN l_result.issues : l_result.issues[k].kind = "loc"

\* C25: _check_consistency fails with a LOC-inconsistency issue whenever the
\* text contains a number adjacent to 'LOC', 'lines' or 'lines of code',
\* before or after the word, that deviates from total_loc_added +
\* total_loc_deleted by more than 20%, and flags no number within 20%; with
\* the date present it passes exactly when no such number deviates.
C25_LocBeforeOrAfter ==
    l_pc = "returned" =>
        LET total_loc == l_git_data.total_loc_added + l_git_data.total_loc_deleted
            deviating == {n \in NumbersStated : Deviates(n, total_loc)}
        IN  /\ HasLocIssue <=> deviating # {}
            /\ \A k \in DOMAIN l_result.issues :
                  l_result.issues[k].kind = "loc" => l_result.issues[k].found \in deviating
            /\ DateStated => (l_result.passed <=> deviating = {})

(***************************************************************************)
(* Specification SpecValidator: ValidationAgent.validate_entry on entries  *)
(* at <YYYY>/<MM>/<DD>.md whose first line is a date header.  The content  *)
(* is a sequence of lines; a line is a sequence of characters in which a   *)
(* month name and a section title are single items.                        *)
(***************************************************************************)
MonthNames == <<"January", "February">>

\* the titles validate_entry looks for; each starts with "##"
SectionTitles == {"## Summary", "## Repositories Worked On", "## Projects Legend"}

\* [A-Z][a-z]+
IsCapitalisedWord(c) == c \in Range(MonthNames)

\* (\d{4})/(\d{2})/(\d{2})\.md$ matched at position p of the path
PathPatternAt(path, p) ==
    /\ p + 10 = Len(path)
    /\ \A k \in 0..9 :
          IF k \in {4, 7} THEN path[p + k] = "/" ELSE IsDigit(path[p + k])
    /\ path[p + 10] = ".md"

\* # [A-Z][a-z]+ (\d{1,2}), (\d{4}) matched at position p of a line
HeaderPatternAt(line, p) ==
    LET d == p + 4
        e == IF IsDigit(At(line, d + 1)) THEN d + 2 ELSE d + 1
    IN  IF /\ Literal(line, p, <<"#", " ">>)
           /\ IsCapitalisedWord(At(line, p + 2))
           /\ At(line, p + 3) = " "
           /\ IsDigit(At(line, d))
           /\ Literal(line, e, <<",", " ">>)
           /\ \A k \in 2..5 : IsDigit(At(line, e + k))
        THEN [matched |-> TRUE, end |-> e + 6,
              group |-> <<SubSeq(line, d, e - 1), SubSeq(line, e + 2, e + 5)>>]
        ELSE NoMatch

\* re.search(header_pattern, content): the leftmost match
HeaderSearch(content) ==
    LET hits == {pos \in {<<i, p>> : i \in DOMAIN content, p \in 1..3} :
                    /\ pos[2] <= Len(content[pos[1]])
                    /\ HeaderPatternAt(content[pos[1]], pos[2]).matched}
    IN  IF hits = {} THEN NoMatch
        ELSE LET first == CHOOSE h \in hits :
                            \A g \in hits : h[1] < g[1] \/ (h[1] = g[1] /\ h[2] <= g[2])
             IN  HeaderPatternAt(content[first[1]], first[2])

\* str.zfill(2)
Zfill2(s) == IF Len(s) < 2 THEN <<"0">> \o s ELSE s

\* header_year != year or header_day.zfill(2) != day
DateMismatch(year, month, day, header_day, header_year) ==
    header_year # year \/ Zfill2(header_day) # day

\* _check_date_consistency: the issues it appends
CheckDateConsistency(entry_path, content) ==
    LET starts == {p \in 1..Len(entry_path) : PathPatternAt(entry_path, p)}
    IN  IF starts = {} THEN <<>>
        ELSE LET p == CHOOSE q \in starts : TRUE
                 year == SubSeq(entry_path, p, p + 3)
                 month == SubSeq(entry_path, p + 5, p + 6)
                 day == SubSeq(entry_path, p + 8, p + 9)
                 header_match == HeaderSearch(content)
             IN  IF /\ header_match.matched
                    /\ DateMismatch(year, month, day,
                                    header_match.group[1], header_match.group[2])
                 THEN <<"Date mismatch">>
                 ELSE <<>>

\* _has_header: the pattern at the start of a line
HasHeader(content) == \E i \in DOMAIN content : HeaderPatternAt(content[i], 1).matched

\* _has_section: section_title in content
HasSection(content, section_title) ==
    \E i \in DOMAIN content : \E p \in DOMAIN content[i] : content[i][p] = section_title

\* _check_markdown_formatting: the warnings it appends
FormattingWarnings(content) ==
    [k \in 1..Cardinality({i \in DOMAIN content :
                              content[i] # <<>> /\ content[i][Len(content[i])] \in Whitespace})
        |-> "Trailing whitespace"]
    \o [k \in 1..Cardinality({i \in 2..Len(content) :
                                 /\ content[i] # <<>> /\ content[i][1] \in SectionTitles
                                 /\ \E p \in DOMAIN content[i - 1] :
                                       content[i - 1][p] \notin Whitespace})
        |-> "Header should have empty line before it"]

ValidateEntry(entry_path, file) ==
    IF ~file.readable
    THEN [valid |-> FALSE, issues |-> <<"Failed to read entry">>, warnings |-> <<>>]
    ELSE LET content == file.content
             issues ==
                 (IF HasHeader(content) THEN <<>> ELSE <<"Missing or invalid header section">>)
                 \o (IF HasSection(content, "## Summary") THEN <<>>
                     ELSE <<"Missing Summary section">>)
                 \o (IF HasSection(content, "## Repositories Worked On") THEN <<>>
                     ELSE <<"Missing Repositories Worked On section">>)
                 \o CheckDateConsistency(entry_path, content)
             warnings ==
                 (IF HasSection(content, "## Projects Legend") THEN <<>>
                  ELSE <<"Missing Projects Legend section">>)
                 \o FormattingWarnings(content)
         IN  [valid |-> (issues = <<>>), issues |-> issues, warnings |-> warnings]

Years == {<<"2", "0", "2", "5">>, <<"2", "0", "2", "4">>}

Months == {<<"0", "1">>, <<"0", "2">>}

Days == {<<"1", "5">>, <<"0", "5">>}

HeaderDays == {<<"1", "5">>, <<"5">>, <<"0", "5">>}

EntryPathOf(year, month, day) ==
    <<"journal", "/">> \o year \o <<"/">> \o month \o <<"/">> \o day \o <<".md">>

HeaderLine(name, day, year) == <<"#", " ", name, " ">> \o day \o <<",", " ">> \o year

ContentOf(header, titles) ==
    <<header>>
    \o (IF "## Summary" \in titles THEN << <<>>, <<"## Summary">> >> ELSE <<>>)
    \o (IF "## Repositories Worked On" \in titles
        THEN << <<"## Repositories Worked On">> >> ELSE <<>>)
    \o (IF "## Projects Legend" \in titles
        THEN << <<>>, <<"## Projects Legend">> >> ELSE <<>>)

ValidatorInit ==
    /\ v_pc = "validate"
    /\ \E year \in Years, month \in Months, day \in Days :
          v_entry_path = EntryPathOf(year, month, day)
    /\ \/ v_file = [readable |-> FALSE, content |-> <<>>]
       \/ \E name \in Range(MonthNames), day \in HeaderDays, year \in Years,
             titles \in SUBSET SectionTitles :
             v_file = [readable |-> TRUE,
                       content |-> ContentOf(HeaderLine(name, day, year), titles)]
    /\ v_result = <<>>
    /\ DecisionIdle
    /\ CompileIdle
    /\ RetryIdle
    /\ OrchestratorIdle
    /\ AgentIdle
    /\ FallbackIdle
    /\ CheckEntryIdle
    /\ AccuracyIdle
    /\ LegendIdle
    /\ ModesIdle
    /\ AnalysisIdle
    /\ ConsistencyIdle
    /\ QualityIdle
    /\ CacheIdle

ValidateEntryCall ==
    /\ v_pc = "validate"
    /\ v_result' = ValidateEntry(v_entry_path, v_file)
    /\ v_pc' = "returned"
    /\ UNCHANGED <<v_entry_path, v_file>>
    /\ UNCHANGED <<d_vars, c_vars, r_vars, o_vars, a_vars, f_vars, e_vars, t_vars,
                   p_vars, q_vars, g_vars, l_vars, k_vars, m_vars>>

SpecValidator == ValidatorInit /\ [][ValidateEntryCall]_vars

\* the month number of a month name, as two digits
MonthNumber(name) ==
    LET k == CHOOSE i \in DOMAIN MonthNames : MonthNames[i] = name
    IN  Zfill2(Decimal(k))

\* the date of the header that is the first line of the file, as the path
\* writes it
HeaderDate ==
    LET header == v_file.content[1]
        day == IF header[6] = "," THEN <<header[5]>> ELSE <<header[5], header[6]>>
    IN  SubSeq(header, Len(header) - 3, Len(header)) \o <<"/">>
        \o MonthNumber(header[3]) \o <<"/">> \o Zfill2(day)

PathDate == SubSeq(v_entry_path, 3, 12)

ReportsDateMismatch == \E k \in DOMAIN v_result.issues : v_result.issues[k] = "Date mismatch"

\* C26: validate_entry reports a 'Date mismatch' issue (valid False) whenever
\* the date of the '# <Month name> <D>, <YYYY>' header differs from the date
\* embedded in the file path <YYYY>/<MM>/<DD>.md in year, month or day, and
\* reports no date issue when they agree.
C26_DateMismatchReported ==
    (v_pc = "returned" /\ v_file.readable) =>
        /\ ReportsDateMismatch <=> HeaderDate # PathDate
        /\ ReportsDateMismatch => ~v_result.valid

(***************************************************************************)
(* Specification SpecQuality: QualityAssuranceAgent.validate_and_commit    *)
(* with _review_quality.  The content of the LLM reply is a sequence of    *)
(* tokens: braces, brackets, key=value members, numbers and words.         *)
(***************************************************************************)
JsonMembers == {"score=85", "score=40", "reasoning=r", "suggestions=s"}

JsonNumbers == {"42"}

\* re.search(r"\{[\s\S]*\}", content_text): from the first "{" to the last "}"
ExtractJson(content_text) ==
    LET opens == {p \in DOMAIN content_text : content_text[p] = "{"}
    IN  IF opens = {} THEN content_text
        ELSE LET lo == CHOOSE p \in opens : \A q \in opens : p <= q
                 closes == {p \in DOMAIN content_text : p > lo /\ content_text[p] = "}"}
             IN  IF closes = {} THEN content_text
                 ELSE SubSeq(content_text, lo,
                             CHOOSE p \in closes : \A q \in closes : q <= p)

JsonError == [kind |-> "JSONDecodeError", members |-> {}]

\* json.loads on the token grammar: an object of members, a list of at most
\* one value, or a number; anything else does not decode
RECURSIVE JsonLoads(_)
JsonLoads(text) ==
    LET inner == SubSeq(text, 2, Len(text) - 1)
    IN  IF Len(text) = 1 /\ text[1] \in JsonNumbers
        THEN [kind |-> "number", members |-> {}]
        ELSE IF Len(text) >= 2 /\ text[1] = "{" /\ text[Len(text)] = "}"
                /\ \A p \in DOMAIN inner : inner[p] \in JsonMembers
        THEN [kind |-> "object", members |-> Range(inner)]
        ELSE IF Len(text) >= 2 /\ text[1] = "[" /\ text[Len(text)] = "]"
                /\ (inner = <<>> \/ JsonLoads(inner).kind # "JSONDecodeError")
        THEN [kind |-> "list", members |-> {}]
        ELSE JsonError

DefaultReview == [kind |-> "returned", score |-> 70, suggestions |-> <<>>]

\* review.get("score", 70)
GetScore(review) ==
    IF "score=85" \in review.members THEN 85
    ELSE IF "score=40" \in review.members THEN 40
    ELSE 70

\* review.get("suggestions", [])
GetSuggestions(review) == IF "suggestions=s" \in review.members THEN <<"s">> ELSE <<>>

RaisedFrom(name) == [kind |-> name, score |-> 0, suggestions |-> <<>>]

\* _review_quality: what it returns, or the exception that leaves it
ReviewQuality(reply) ==
    IF reply.kind = "raises" THEN RaisedFrom("ConnectionError")
    ELSE LET content_text == IF reply.kind = "no_content" THEN <<"{", "}">>
                             ELSE reply.content
             review == JsonLoads(ExtractJson(content_text))
         IN  IF review.kind = "JSONDecodeError" THEN DefaultReview
             ELSE IF review.kind # "object" THEN RaisedFrom("AttributeError")
             ELSE [kind |-> "returned", score |-> GetScore(review),
                   suggestions |-> GetSuggestions(review)]

NewQaResult ==
    [status |-> "fail", issues |-> <<>>, suggestions |-> <<>>, overall_score |-> 0,
     file_path |-> "", committed |-> FALSE, reasoning |-> ""]

MinScore == 70

\* what a reply's content is, as the sender meant it
Reply(decodes, content) == [kind |-> "content", decodes |-> decodes, content |-> content]

ReviewReplies ==
    {Reply("review", <<"{", "score=85", "suggestions=s", "reasoning=r", "}">>),
     Reply("review", <<"Sure", "{", "score=40", "reasoning=r", "suggestions=s", "}", "Bye">>),
     Reply("not_json", <<"Sure">>),
     Reply("not_json", <<"{", "score=85">>),
     Reply("not_json", <<"{", "Sure", "}">>),
     Reply("not_json", <<"}", "score=85", "{">>),
     Reply("other_json", <<"{", "}">>),
     Reply("other_json", <<"{", "reasoning=r", "}">>),
     Reply("other_json", <<"[", "]">>),
     Reply("other_json", <<"[", "42", "]">>),
     Reply("other_json", <<"42">>),
     [kind |-> "no_content", decodes |-> "other_json", content |-> <<>>],
     [kind |-> "raises", decodes |-> "none", content |-> <<>>]}

QualityEnvs ==
    [syntax_errors : {<<>>, <<"Syntax: unclosed code block">>},
     ref_issues : {<<>>, <<"Missing reference to repo">>,
                   <<"Project in legend not in git data: critical-fixes">>},
     create_file : {"written", "raises"},
     auto_commit : BOOLEAN,
     commit_file : BOOLEAN]

QualityInit ==
    /\ k_pc = "review"
    /\ k_reply \in ReviewReplies
    /\ k_env \in QualityEnvs
    /\ k_review = <<>>
    /\ k_result = NewQaResult
    /\ DecisionIdle
    /\ CompileIdle
    /\ RetryIdle
    /\ OrchestratorIdle
    /\ AgentIdle
    /\ FallbackIdle
    /\ CheckEntryIdle
    /\ AccuracyIdle
    /\ LegendIdle
    /\ ModesIdle
    /\ AnalysisIdle
    /\ ConsistencyIdle
    /\ ValidatorIdle
    /\ CacheIdle

\* "critical" in issue.lower()
IsCritical(issue) == issue = "Project in legend not in git data: critical-fixes"

QaExceptKeepingStatus(result) == [result EXCEPT !.reasoning = "Validation error"]

\* except Exception as e of validate_and_commit
QaExcept(result) == [result EXCEPT !.status = "fail", !.reasoning = "Validation error"]

\* steps 1 and 2 of validate_and_commit
QaReviewStep ==
    /\ k_pc = "review"
    /\ k_review' = ReviewQuality(k_reply)
    /\ LET with_syntax == [k_result EXCEPT !.issues = @ \o k_env.syntax_errors]
       IN  IF k_review'.kind = "returned"
           THEN /\ k_result' = with_syntax
                /\ k_pc' = "references"
           ELSE /\ k_result' = QaExcept(with_syntax)
                /\ k_pc' = "returned"
    /\ UNCHANGED <<k_reply, k_env>>
    /\ UNCHANGED <<d_vars, c_vars, r_vars, o_vars, a_vars, f_vars, e_vars, t_vars,
                   p_vars, q_vars, g_vars, l_vars, v_vars, m_vars>>

\* steps 3 to 6 of validate_and_commit
QaDecideStep ==
    /\ k_pc = "references"
    /\ LET scored == [k_result EXCEPT !.issues = @ \o k_env.ref_issues,
                                      !.reasoning = "review",
                                      !.suggestions = k_review.suggestions,
                                      !.overall_score = k_review.score]
           critical_issues == \E i \in DOMAIN scored.issues : IsCritical(scored.issues[i])
       IN  k_result' =
             IF scored.overall_score >= MinScore /\ ~critical_issues
             THEN IF k_env.create_file = "raises"
                  THEN QaExcept([scored EXCEPT !.status = "pass"])
                  ELSE [scored EXCEPT !.status = "pass",
                                      !.file_path = "2025/01/15.md",
                                      !.committed = k_env.auto_commit /\ k_env.commit_file]
             ELSE [scored EXCEPT !.status = "fail"]
    /\ k_pc' = "returned"
    /\ UNCHANGED <<k_reply, k_env, k_review>>
    /\ UNCHANGED <<d_vars, c_vars, r_vars, o_vars, a_vars, f_vars, e_vars, t_vars,
                   p_vars, q_vars, g_vars, l_vars, v_vars, m_vars>>

QualityNext == QaReviewStep \/ QaDecideStep

SpecQuality == QualityInit /\ [][QualityNext]_vars

\* the reply was not JSON, or JSON that is not an object with the expected
\* keys
DecodeFailure == k_reply.decodes \in {"not_json", "other_json"}

\* C27: on any decode failure of the LLM quality review (content that is
\* not JSON, or JSON that is not an object with the expected keys),
\* _review_quality returns the default score 70 with empty suggestions
\* instead of raising, so validate_and_commit continues with overall_score
\* 70.
C27_DecodeFailureDefaults ==
    DecodeFailure =>
        /\ k_pc # "review" => k_review = DefaultReview
        /\ k_pc = "returned" => k_result.overall_score = 70

(***************************************************************************)
(* Specification SpecCache: the functions of utils.cache called one after  *)
(* the other on projects.json, which at the start is missing, holds what   *)
(* an earlier run saved, or holds something else.                          *)
(***************************************************************************)
MaxOps == 3

CacheKeys == {"api", "web"}

Descriptions == {"d1", "d2"}

ProjectMaps == UNION {[keys -> Descriptions] : keys \in SUBSET CacheKeys}

EmptyMap == [k \in {} |-> "d1"]

\* json.dump(projects, f, indent=2): the members of the object written
JsonDump(projects) == [kind |-> "object", members |-> {<<k, projects[k]>> : k \in DOMAIN projects}]

\* json.load on an object: the dict of its members
JsonLoadObject(members) ==
    [k \in {m[1] : m \in members} |-> (CHOOSE m \in members : m[1] = k)[2]]

\* projects.json: missing, a JSON object, a JSON list, a text that is no
\* JSON, or bytes that are no UTF-8
CacheFiles ==
    {JsonDump(p) : p \in ProjectMaps}
    \cup {[kind |-> k, members |-> {}] : k \in {"missing", "list", "text", "bytes"}}

Returned(value) == [kind |-> "returned", value |-> value, is_none |-> FALSE]

ReturnedList == [kind |-> "returned_list", value |-> EmptyMap, is_none |-> FALSE]

ReturnedNone == [kind |-> "returned", value |-> EmptyMap, is_none |-> TRUE]

Raised(name) == [kind |-> name, value |-> EmptyMap, is_none |-> FALSE]

\* load_projects_cache; the except clause names JSONDecodeError and IOError
LoadProjectsCacheFrom(file) ==
    CASE file.kind = "missing" -> Returned(EmptyMap)
      [] file.kind = "object" -> Returned(JsonLoadObject(file.members))
      [] file.kind = "list" -> ReturnedList
      [] file.kind = "text" -> Returned(EmptyMap)
      [] file.kind = "bytes" -> Raised("UnicodeDecodeError")

NoCall == [op |-> "none", key |-> "", projects |-> EmptyMap, description |-> "",
           before |-> [kind |-> "missing", members |-> {}],
           outcome |-> ReturnedNone]

CacheInit ==
    /\ m_file \in CacheFiles
    /\ m_ops = 0
    /\ m_prev = NoCall
    /\ m_last = NoCall
    /\ DecisionIdle
    /\ CompileIdle
    /\ RetryIdle
    /\ OrchestratorIdle
    /\ AgentIdle
    /\ FallbackIdle
    /\ CheckEntryIdle
    /\ AccuracyIdle
    /\ LegendIdle
    /\ ModesIdle
    /\ AnalysisIdle
    /\ ConsistencyIdle
    /\ ValidatorIdle
    /\ QualityIdle

Called(call) ==
    /\ m_ops < MaxOps
    /\ m_ops' = m_ops + 1
    /\ m_prev' = m_last
    /\ m_last' = [call EXCEPT !.before = m_file]
    /\ UNCHANGED <<d_vars, c_vars, r_vars, o_vars, a_vars, f_vars, e_vars, t_vars,
                   p_vars, q_vars, g_vars, l_vars, v_vars, k_vars>>

SaveProjectsCache ==
    \E projects \in ProjectMaps :
        /\ m_file' = JsonDump(projects)
        /\ Called([NoCall EXCEPT !.op = "save", !.projects = projects])

LoadProjectsCacheCall ==
    /\ UNCHANGED m_file
    /\ Called([NoCall EXCEPT !.op = "load", !.outcome = LoadProjectsCacheFrom(m_file)])

\* projects[repo_name] = description
SetItem(projects, repo_name, description) ==
    [k \in DOMAIN projects \cup {repo_name} |->
        IF k = repo_name THEN description ELSE projects[k]]

UpdateProjectCache ==
    \E repo_name \in CacheKeys, description \in Descriptions :
        LET loaded == LoadProjectsCacheFrom(m_file)
            call == [NoCall EXCEPT !.op = "update", !.key = repo_name,
                                   !.description = description]
        IN  IF loaded.kind = "returned"
            THEN /\ m_file' = JsonDump(SetItem(loaded.value, repo_name, description))
                 /\ Called(call)
            ELSE /\ UNCHANGED m_file
                 /\ Called([call EXCEPT !.outcome =
                              IF loaded.kind = "returned_list" THEN Raised("TypeError")
                              ELSE loaded])

GetProjectDescription ==
    \E repo_name \in CacheKeys :
        LET loaded == LoadProjectsCacheFrom(m_file)
        IN  /\ UNCHANGED m_file
            /\ Called([NoCall EXCEPT
                  !.op = "get", !.key = repo_name,
                  !.description =
                      IF loaded.kind = "returned" /\ repo_name \in DOMAIN loaded.value
                      THEN loaded.value[repo_name] ELSE "",
                  !.outcome =
                      IF loaded.kind = "returned"
                      THEN IF repo_name \in DOMAIN loaded.value
                           THEN Returned(EmptyMap) ELSE ReturnedNone
                      ELSE IF loaded.kind = "returned_list" THEN Raised("AttributeError")
                      ELSE loaded])

CacheNext ==
    \/ SaveProjectsCache
    \/ LoadProjectsCacheCall
    \/ UpdateProjectCache
    \/ GetProjectDescription

SpecCache == CacheInit /\ [][CacheNext]_vars

\* the map a file holds, for a file that holds one
MapIn(file) == IF file.kind = "object" THEN JsonLoadObject(file.members) ELSE EmptyMap

\* C28: over any sequence of operations, load_projects_cache after
\* save_projects_cache(p) returns p; update_project_cache(k, v) changes only
\* key k, every other key keeps its value, and a following
\* get_project_description(k) returns v; load_projects_cache on a missing or
\* corrupt file returns the empty map.
C28_CacheRoundTrip ==
    /\ (m_last.op = "load" /\ m_prev.op = "save")
          => m_last.outcome = Returned(m_prev.projects)
    /\ (m_last.op = "update" /\ m_last.before.kind \in {"object", "missing", "text"})
          => /\ m_file.kind = "object"
             /\ MapIn(m_file) = SetItem(MapIn(m_last.before), m_last.key, m_last.description)
    /\ (m_last.op = "get" /\ m_prev.op = "update" /\ m_last.key = m_prev.key
        /\ m_prev.before.kind \in {"object", "missing", "text"})
          => /\ m_last.outcome.kind = "returned" /\ ~m_last.outcome.is_none
             /\ m_last.description = m_prev.description
    /\ (m_last.op = "load" /\ m_last.before.kind \in {"missing", "text", "bytes"})
          => m_last.outcome = Returned(EmptyMap)

(***************************************************************************)
(* Arbitration defaults of Orchestrator.run_day, under Spec.               *)
(***************************************************************************)
\* a sequential run whose agents' own chat calls did not raise asked for
\* one arbitration, the one of _evaluate_qa_result, and its chat call raised
QaArbitrationUnreachable ==
    /\ ~o_config.parallel_agents
    /\ o_stages.fact_checking.status # "failed"
    /\ o_stages.quality_assurance.status # "failed"
    /\ Len(o_decisions) = 1
    /\ o_decisions[1][1] = "quality_assurance"
    /\ "llm" \in o_raised

\* C29: if the QA score is below 7 and the arbitration LLM is unreachable
\* (the chat call raises), run_day does not accept the entry: final_status
\* is not 'success' and no final commit is made.
C29_UnreachableArbiterRejects ==
    (Done /\ QaArbitrationUnreachable /\ o_stages.quality_assurance.score < QaPassScore)
        => /\ o_summary.final_status # "success"
           /\ ~FinalCommitMade

\* the operation of the stage an arbitration belongs to
StageOperation(stage) ==
    IF stage = "git_analysis" THEN "analyze_day" ELSE "generate_entry"

\* C30: when the arbitration for a failed stage (git analysis or content
\* generation) resolves to 'retry', the stage's operation (analyze_day or
\* generate_entry) is invoked at least once more before the stage returns:
\* once the stage has returned, the operation has been invoked more often
\* than the max_retries attempts that led to the arbitration.
C30_RetryInvokesAgain ==
    \A k \in DOMAIN o_decisions :
        (/\ o_decisions[k][1] \in {"git_analysis", "content_generation"}
         /\ o_decisions[k][2] = S_retry
         /\ o_pc \notin {"git_analysis", "content_generation"})
            => o_calls[StageOperation(o_decisions[k][1])] > o_config.max_retries

(***************************************************************************)
(* The fallback entry in Orchestrator.run_day, under Spec.                 *)
(***************************************************************************)
\* C31: when content generation ends with status 'fallback', run_day
\* continues with the fallback text through fact checking and quality
\* assurance: the run does not end before both stages have a result.
C31_FallbackContinues ==
    (Done /\ o_stages.content_generation.status = "fallback")
        => VerificationCompleted

(***************************************************************************)
(* Commits of a failed OrchestratorAgent.run_day, under SpecAgent.         *)
(***************************************************************************)
\* C32: if OrchestratorAgent.run_day returns status 'failed', no git commit
\* of the entry was made during the run; the entry is never committed
\* before validate_entry has returned valid.
C32_NoCommitBeforeValidation ==
    /\ (a_pc = "done" /\ a_return.status = "failed") => a_commits = <<>>
    /\ a_commits # <<>> => (a_validation_result.kind = "ok" /\ a_validation_result.valid)

(***************************************************************************)
(* Invocations of the verification agents in Orchestrator.run_day, under   *)
(* Spec.                                                                   *)
(***************************************************************************)
\* C33: within one run_day, verify_facts and check_quality are each invoked
\* exactly once, with parallel_agents enabled as well as disabled: once both
\* stages have their result, each agent has been called once, and never
\* more than once at any point of the run.
C33_AgentsInvokedOnce ==
    /\ o_calls["verify_facts"] <= 1
    /\ o_calls["check_quality"] <= 1
    /\ VerificationCompleted =>
          /\ o_calls["verify_facts"] = 1
          /\ o_calls["check_quality"] = 1

(***************************************************************************)
(* Specification SpecLegendSave: ContentGenerationAgent.                   *)
(* _generate_projects_legend called one time after the other on            *)
(* projects.json, with an LLM that answers any JSON object, a JSON list, a *)
(* text that is no JSON, or not at all.                                    *)
(***************************************************************************)
LegendAnswers ==
    {[kind |-> "object", projects |-> p] : p \in ProjectMaps}
    \cup {[kind |-> k, projects |-> EmptyMap] : k \in {"list", "text", "raises"}}

LegendCall(mentioned_repos, outcome) ==
    [op |-> "legend", key |-> "", projects |-> EmptyMap, description |-> "",
     before |-> [kind |-> "missing", members |-> {}], outcome |-> outcome,
     mentioned |-> mentioned_repos]

\* _generate_projects_legend: load_projects_cache, the chat call,
\* json.loads, save_projects_cache(updated_projects), the legend lines
GenerateProjectsLegend ==
    \E mentioned_repos \in SUBSET CacheKeys, answer \in LegendAnswers :
        LET cached_projects == LoadProjectsCacheFrom(m_file)
        IN  CASE cached_projects.kind \notin {"returned", "returned_list"} ->
                 /\ UNCHANGED m_file
                 /\ Called(LegendCall(mentioned_repos, cached_projects))
              [] cached_projects.kind \in {"returned", "returned_list"}
                 /\ answer.kind = "raises" ->
                 /\ UNCHANGED m_file
                 /\ Called(LegendCall(mentioned_repos, Raised("ConnectionError")))
              [] cached_projects.kind \in {"returned", "returned_list"}
                 /\ answer.kind = "object" ->
                 /\ m_file' = JsonDump(answer.projects)
                 /\ Called(LegendCall(mentioned_repos, Returned(answer.projects)))
              [] cached_projects.kind \in {"returned", "returned_list"}
                 /\ answer.kind = "list" ->
                 /\ m_file' = [kind |-> "list", members |-> {}]
                 /\ Called(LegendCall(mentioned_repos, Raised("AttributeError")))
              [] cached_projects.kind \in {"returned", "returned_list"}
                 /\ answer.kind = "text" ->
                 /\ UNCHANGED m_file
                 /\ Called(LegendCall(mentioned_repos,
                        IF cached_projects.kind = "returned_list" /\ mentioned_repos # {}
                        THEN Raised("AttributeError")
                        ELSE Returned(EmptyMap)))

SpecLegendSave == CacheInit /\ [][GenerateProjectsLegend]_vars

\* C34: generating an entry never removes an existing project description
\* from the projects cache: after _generate_projects_legend, whatever the
\* LLM answered, every key that was in the cache before is still present,
\* and keys of repositories not mentioned in the day's data keep their
\* value.
C34_LegendKeepsCache ==
    (m_last.op = "legend" /\ m_last.before.kind = "object")
        => /\ m_file.kind = "object"
           /\ \A k \in DOMAIN MapIn(m_last.before) :
                 /\ k \in DOMAIN MapIn(m_file)
                 /\ k \notin m_last.mentioned => MapIn(m_file)[k] = MapIn(m_last.before)[k]

(***************************************************************************)
(* The retry loops of _run_git_analysis and _run_content_generation, under *)
(* SpecFair: Spec with every enabled step of the run eventually taken.     *)
(***************************************************************************)
SpecFair == Spec /\ WF_vars(Next)

DecisionsOf(stage) == Cardinality({k \in DOMAIN o_decisions : o_decisions[k][1] = stage})

RetryDecided(stage) == \E k \in DOMAIN o_decisions : o_decisions[k] = <<stage, S_retry>>

StagesBounded ==
    /\ o_calls["analyze_day"] <= o_config.max_retries
    /\ o_calls["generate_entry"] <= o_config.max_retries
    /\ \A stage \in {"git_analysis", "content_generation"} :
          /\ DecisionsOf(stage) <= 1
          /\ RetryDecided(stage) =>
                /\ o_calls[StageOperation(stage)] = o_config.max_retries
                /\ o_stages[stage].status = "failed"
                /\ o_stages[stage].error = "Max retries exceeded"
                /\ "Max retries exceeded" \in Range(o_summary.errors)

\* C35: _run_git_analysis and _run_content_generation always terminate, for
\* any max_retries >= 1: each invokes its operation at most max_retries
\* times and consults arbitration at most once, even if the operation
\* always raises and arbitration always answers 'retry'; in that case the
\* stage returns status 'failed' with error 'Max retries exceeded' appended
\* to the summary errors.  Termination: the run reaches its end.
C35_StagesTerminate == []StagesBounded /\ <>Done

\* both stages used every attempt and their arbitration answered 'retry'
C35_Witness ==
    /\ o_config.max_retries = MaxRetries
    /\ o_calls["analyze_day"] = MaxRetries
    /\ o_calls["generate_entry"] = MaxRetries
    /\ RetryDecided("git_analysis")
    /\ RetryDecided("content_generation")
    /\ Done

(***************************************************************************)
(* The result of validate_and_commit, under SpecQuality.                   *)
(***************************************************************************)
QaReturned == k_pc = "returned"

NoCriticalIssue == \A i \in DOMAIN k_result.issues : ~IsCritical(k_result.issues[i])

\* an exception was raised inside validate_and_commit: by _review_quality,
\* or by _create_journal_file, which is called once the score and the
\* issues allow a pass
RaisedInside ==
    \/ k_review.kind # "returned"
    \/ /\ k_result.overall_score >= MinScore
       /\ NoCriticalIssue
       /\ k_env.create_file = "raises"

ResultFields ==
    /\ k_result.file_path # "" => k_result.status = "pass"
    /\ k_result.committed => (k_result.file_path # "" /\ k_env.auto_commit)
    /\ RaisedInside => k_result.status = "fail"

\* C36 as stated: validate_and_commit returns status 'pass' iff
\* overall_score >= 70 and no collected issue contains the word 'critical';
\* file_path is non-empty only if the status is 'pass', committed is True
\* only if the file was written and auto_commit is enabled, and any
\* exception gives status 'fail'.
C36_Original ==
    QaReturned =>
        /\ k_result.status = "pass" <=> (k_result.overall_score >= MinScore /\ NoCriticalIssue)
        /\ ResultFields

\* C36: validate_and_commit returns status 'pass' iff no exception was
\* raised inside it, overall_score >= 70 and no collected issue contains
\* the word 'critical' (syntax and cross-reference issues alone never block
\* a pass); file_path is non-empty only if the status is 'pass', committed
\* is True only if the file was written and auto_commit is enabled, and any
\* exception gives status 'fail'.
C36_PassRule ==
    QaReturned =>
        /\ k_result.status \in {"pass", "fail"}
        /\ k_result.status = "pass"
              <=> (~RaisedInside /\ k_result.overall_score >= MinScore /\ NoCriticalIssue)
        /\ ResultFields

\* a pass with a syntax issue and a cross-reference issue, committed
C36_Witness ==
    /\ QaReturned
    /\ k_result.status = "pass"
    /\ Len(k_result.issues) = 2
    /\ k_result.committed
    /\ k_result.overall_score = 70
====
